---- MODULE Spec2Model ----
(***************************************************************************)
(* A model of the fluidloom-vk core: the stencil dependency graph and its  *)
(* Kahn scheduler, the per-sub-domain timestep (command recording, queue   *)
(* submission with timeline semaphores, host fence wait) and the field     *)
(* registry with its bindless address table.                               *)
(*                                                                         *)
(* Each subsystem has its own specification (SpecGraph, SpecHalo,          *)
(* SpecField); the variables of the other subsystems stay at their initial *)
(* values.                                                                 *)
(***************************************************************************)
EXTENDS Integers, Sequences, FiniteSets, TLC

VARIABLES
    \* ---- graph::DependencyGraph ----
    m_nodes,            \* std::map<std::string, Node>: name -> [reads, writes, dependencies]
    m_adjacencyList,    \* std::map<std::string, std::vector<std::string>>: name -> dependents
    declared,           \* history: the names in the order addNode was called
    schedResult,        \* outcome of the last buildSchedule() on the present graph
    cycleResult,        \* outcome of the last hasCycle() on the present graph
    \* ---- script::SimulationEngine, graph::GraphExecutor, halo::HaloManager ----
    fieldOrder,         \* the registered fields, in the iteration order of getFields()
    m_subDomains,       \* std::vector<domain::SubDomain>, empty until the first step
    hostPc,             \* the host thread in step(): idle, record, fence, done, failed
    domainIdx,          \* the sub-domain the loop of step() is at (1-based)
    stepCalls,          \* number of step() calls made so far
    cmdBuf,             \* the commands recorded into the last command buffer
    m_waitSemaphores,   \* GraphExecutor::m_waitSemaphores (semaphore handles)
    m_waitValues,       \* GraphExecutor::m_waitValues
    m_signalSemaphores, \* GraphExecutor::m_signalSemaphores
    m_signalValues,     \* GraphExecutor::m_signalValues
    submission,         \* the batch handed to the compute queue, not yet executed
    fenceSignaled,      \* the fence of the last submit
    m_haloSemaphores,   \* timeline semaphores: handle -> counter value
    remoteHalos,        \* contents of HaloBufferSet::remoteHalos: field, gpu, face
    localHalos,         \* contents of HaloBufferSet::localHalos: field, gpu, face
    consumed,           \* what the unpack dispatches of this step() read: field, gpu, face
    signalLog,          \* history: per semaphore, the signal values recorded so far
    waitLog,            \* history: per semaphore, the wait values recorded so far
    \* ---- field::FieldRegistry ----
    m_fields,               \* name -> FieldDesc
    m_nextDescriptorIndex,  \* next descriptor index to hand out
    m_bdaTableMapped,       \* the mapped address table, MAX_FIELDS entries
    registerResult,         \* outcome of the last registerField call
    registryAlive,          \* FALSE once the destructor has run
    \* ---- domain::DomainSplitter ----
    hostGrid,               \* the grid given to split(): the set of its leaves
    configGpuCount,         \* SplitConfig::gpuCount
    splitDomains,           \* the std::vector<SubDomain> the last split() returned
    \* ---- refinement::TopologyRebuilder, refinement::RefinementManager ----
    gridLUT,                \* the coordinate table of the current grid (std::vector<Coord>)
    m_hostLevels,           \* RefinementManager::m_hostLevels, one level per LUT entry
    maskBuffer,             \* contents of m_maskBuffer, one action byte per LUT entry
    m_criteria,             \* RefinementManager::m_criteria (the two level limits)
    m_lastStats,            \* RefinementManager::m_lastStats
    oldLUT,                 \* history: the LUT the last rebuild started from
    oldMask,                \* history: the mask the last rebuild read
    oldLevels,              \* history: m_hostLevels before the last level update
    refinePhase,            \* what the refinement cycle does next: mark or rebuild
    cycles,                 \* number of rebuilds done
    \* ---- nanovdb_adapter::GpuGridManager ----
    uploadGrid,             \* the host grid given to upload(): active coordinate -> value
    lutCoords,              \* contents of GridResources::lutCoords
    linearValues,           \* contents of GridResources::linearValues
    uploadResult,           \* outcome of the last upload(): "none", "ok" or "error"
    \* ---- stencil::PipelineCache ----
    cacheProcs,             \* the processes that use the cache directory
    cacheFiles,             \* the directory: path -> contents of the file, for the files that exist
    saving,                 \* per process: the save() it is in the middle of
    lastLoad,               \* the last load(): arguments, result, and what the directory held
    committed,              \* history: <<name, source>> -> words of its last completed save
    fileOrigin,             \* history: path -> source and words of the save that last opened it
    storeCalls,             \* number of save() calls made
    \* ---- script::SimulationEngine: control flow and resources of step() ----
    m_initialized,          \* SimulationEngine::m_initialized
    engineGpuCount,         \* m_config.gpuCount
    engineDomains,          \* m_subDomains.size()
    m_haloManager,          \* how far m_haloManager got: "null", "constructed", "halos", "semaphores"
    m_graphExecutor,        \* whether m_graphExecutor is non-null
    stepPc,                 \* where step() is: "idle", "loop", "fence", or "crashed"
    stepDomain,             \* the loop's position in m_subDomains
    stepOutcome,            \* how the last step() call ended: "none", "ok", or the exception
    openPools,              \* command pools created and not destroyed
    openFences,             \* fences created and not destroyed
    fenceFailed,            \* history: a fence wait has failed
    lastSubmit,             \* history: what existed at the last queue submit
    engineSteps,            \* number of step() calls made
    \* ---- stencil::StencilRegistry ----
    m_stencils,             \* name -> CompiledStencil (definition and SPIR-V)
    stencilCall,            \* the last registerStencil call: argument, outcome, whether the
                            \* name was known, and the step() calls made before it
    \* ---- script::SimulationEngine::decomposeDomain ----
    gridFileGiven,          \* whether m_config.gridFile is not empty
    gridUploads,            \* history: number of m_gridManager->upload calls that returned
    haloManagersMade,       \* history: number of HaloManager objects constructed
    haloAllocations,        \* history: number of times the halos of all fields were allocated
    semaphoreSetsMade       \* history: number of createHaloSemaphores calls that returned

graphVars == <<m_nodes, m_adjacencyList, declared, schedResult, cycleResult>>

fieldVars == <<m_fields, m_nextDescriptorIndex, m_bdaTableMapped, registerResult,
               registryAlive>>

haloVars == <<fieldOrder, m_subDomains, hostPc, domainIdx, stepCalls, cmdBuf,
              m_waitSemaphores, m_waitValues, m_signalSemaphores, m_signalValues,
              submission, fenceSignaled, m_haloSemaphores, remoteHalos, localHalos,
              consumed, signalLog, waitLog>>

splitVars == <<hostGrid, configGpuCount, splitDomains>>

refineVars == <<gridLUT, m_hostLevels, maskBuffer, m_criteria, m_lastStats, oldLUT,
                oldMask, oldLevels, refinePhase, cycles>>

uploadVars == <<uploadGrid, lutCoords, linearValues, uploadResult>>

cacheVars == <<cacheProcs, cacheFiles, saving, lastLoad, committed, fileOrigin, storeCalls>>

stepVars == <<m_initialized, engineGpuCount, engineDomains, m_haloManager, m_graphExecutor,
              stepPc, stepDomain, stepOutcome, openPools, openFences, fenceFailed,
              lastSubmit, engineSteps>>

stencilVars == <<m_stencils, stencilCall>>

decompVars == <<gridFileGiven, gridUploads, haloManagersMade, haloAllocations,
                semaphoreSetsMade>>

vars == <<graphVars, haloVars, fieldVars, splitVars, refineVars, uploadVars, cacheVars, stepVars,
          stencilVars,
          decompVars>>

-----------------------------------------------------------------------------
(* Bounds and input domains                                                *)

MaxNodes == 3

\* sub-domains (GPUs) a decomposition may have
MaxGpus == 3

\* step() calls explored
MaxSteps == 2

\* Stencil names.  std::map iterates its keys in ascending order; the names
\* are numbered in that order ("A" < "B" < "C").
NodeNames == 1..MaxNodes

Fields == {"x", "y"}

-----------------------------------------------------------------------------
(* Helpers for std::vector and std::map                                    *)

\* std::find(v.begin(), v.end(), e) != v.end()
SeqContains(s, e) == \E i \in 1..Len(s) : s[i] = e

SeqRange(s) == {s[i] : i \in 1..Len(s)}

\* The keys of a std::map in iteration (ascending) order
RECURSIVE SortedSeq(_)
SortedSeq(S) ==
    IF S = {} THEN <<>>
    ELSE LET m == CHOOSE x \in S : \A y \in S : x <= y
         IN  <<m>> \o SortedSeq(S \ {m})

\* push_back of each candidate that std::find does not find yet
RECURSIVE AppendUnique(_, _)
AppendUnique(acc, cands) ==
    IF cands = <<>> THEN acc
    ELSE AppendUnique(IF SeqContains(acc, Head(cands)) THEN acc
                      ELSE Append(acc, Head(cands)),
                      Tail(cands))

\* The field lists (inputs, outputs) the stencil definitions are drawn from
FieldLists == {<<>>, <<"x">>, <<"y">>}

-----------------------------------------------------------------------------
(* graph::DependencyGraph                                                  *)

\* The nodes that write field f, in map order; "if (otherName == name)
\* continue" leaves the node itself out
WritersOfWithSelf(nodes, name, f) ==
    SelectSeq(SortedSeq(DOMAIN nodes), LAMBDA o : SeqContains(nodes[o].writes, f))
WritersOf(nodes, name, f) ==
    SelectSeq(SortedSeq(DOMAIN nodes),
              LAMBDA o : o # name /\ SeqContains(nodes[o].writes, f))

\* The nodes, other than name, that read field f, in map order
ReadersOf(nodes, name, f) ==
    SelectSeq(SortedSeq(DOMAIN nodes),
              LAMBDA o : o # name /\ SeqContains(nodes[o].reads, f))

\* node.dependencies after the first inner loop of computeDependencies
RECURSIVE DependenciesOf(_, _, _, _)
DependenciesOf(nodes, name, readFields, acc) ==
    IF readFields = <<>> THEN acc
    ELSE DependenciesOf(nodes, name, Tail(readFields),
                        AppendUnique(acc, WritersOf(nodes, name, Head(readFields))))

\* m_adjacencyList[name] after the second inner loop of computeDependencies
RECURSIVE DependentsOf(_, _, _, _)
DependentsOf(nodes, name, writeFields, acc) ==
    IF writeFields = <<>> THEN acc
    ELSE DependentsOf(nodes, name, Tail(writeFields),
                      AppendUnique(acc, ReadersOf(nodes, name, Head(writeFields))))

\* computeDependencies(): the adjacency list is cleared and an entry is
\* created (operator[]) only for a node that has at least one dependent.
computeDependencies(nodes) ==
    [nodes |-> [n \in DOMAIN nodes |->
                   [nodes[n] EXCEPT !.dependencies =
                        DependenciesOf(nodes, n, nodes[n].reads, <<>>)]],
     adj   |-> [n \in {k \in DOMAIN nodes :
                          DependentsOf(nodes, k, nodes[k].writes, <<>>) # <<>>} |->
                   DependentsOf(nodes, n, nodes[n].writes, <<>>)]]

\* inDegree[name] = node.dependencies.size()
InDegreeBroken(node) == IF Len(node.dependencies) > 0 THEN 1 ELSE 0
InDegreeOf(node) == Len(node.dependencies)

\* The for loop over m_adjacencyList[current] in buildSchedule.  inDegree is a
\* uint32_t, held here as its two's-complement representative (0 - 1 is -1,
\* that is 2^32 - 1); the code only compares it with 0.
RECURSIVE Relax(_, _, _)
Relax(dependents, inDegree, queue) ==
    IF dependents = <<>> THEN [queue |-> queue, inDegree |-> inDegree]
    ELSE LET d   == Head(dependents)
             deg == inDegree[d] - 1
         IN  Relax(Tail(dependents),
                   [inDegree EXCEPT ![d] = deg],
                   IF deg = 0 THEN Append(queue, d) ELSE queue)

\* The while loop of buildSchedule; m_adjacencyList[current] inserts an empty
\* entry for a node that has none.
RECURSIVE KahnLoop(_, _, _, _)
KahnLoop(queue, inDegree, schedule, adj) ==
    IF queue = <<>> THEN [schedule |-> schedule, adj |-> adj]
    ELSE LET current == Head(queue)
             adj1    == IF current \in DOMAIN adj THEN adj
                        ELSE adj @@ (current :> <<>>)
             r       == Relax(adj1[current], inDegree, Tail(queue))
         IN  KahnLoop(r.queue, r.inDegree, Append(schedule, current), adj1)

\* Kahn's algorithm as run by buildSchedule on computed dependencies
Kahn(cd) ==
    LET inDegree == [n \in DOMAIN cd.nodes |-> InDegreeOf(cd.nodes[n])]
        queue    == SelectSeq(SortedSeq(DOMAIN cd.nodes), LAMBDA n : inDegree[n] = 0)
    IN  KahnLoop(queue, inDegree, <<>>, cd.adj)

\* What buildSchedule hands to its caller: the schedule, or the exception
ScheduleOrThrowBroken(schedule, nodeCount) == [kind |-> "ok", schedule |-> schedule]
ScheduleOrThrow(schedule, nodeCount) ==
    IF Len(schedule) # nodeCount
    THEN [kind |-> "cycle", schedule |-> <<>>]
    ELSE [kind |-> "ok", schedule |-> schedule]

NoResult == [kind |-> "none", schedule |-> <<>>]

addNode(name, reads, writes) ==
    /\ name \notin DOMAIN m_nodes          \* otherwise throws, nothing changes
    /\ Cardinality(DOMAIN m_nodes) < MaxNodes
    /\ m_nodes' = m_nodes @@ (name :> [reads |-> reads, writes |-> writes,
                                        dependencies |-> <<>>])
    /\ schedResult' = NoResult
    /\ cycleResult' = "none"
    /\ UNCHANGED m_adjacencyList

\* The lambda hasCycleDFS: colours white = 0, gray = 1, black = 2.
\* m_adjacencyList.at(node) throws std::out_of_range for a missing key.
RECURSIVE hasCycleDFS(_, _, _)
RECURSIVE hasCycleDFSLoop(_, _, _, _)
hasCycleDFSLoop(adj, node, i, color) ==
    IF i > Len(adj[node])
    THEN [color |-> [color EXCEPT ![node] = 2], res |-> "false"]
    ELSE LET dependent == adj[node][i]
         IN  IF color[dependent] = 1
             THEN [color |-> color, res |-> "true"]
             ELSE IF color[dependent] = 0
                  THEN LET r == hasCycleDFS(adj, dependent, color)
                       IN  IF r.res # "false" THEN r
                           ELSE hasCycleDFSLoop(adj, node, i + 1, r.color)
                  ELSE hasCycleDFSLoop(adj, node, i + 1, color)

hasCycleDFS(adj, node, color) ==
    LET gray == [color EXCEPT ![node] = 1]
    IN  IF node \notin DOMAIN adj
        THEN [color |-> gray, res |-> "out_of_range"]
        ELSE hasCycleDFSLoop(adj, node, 1, gray)

\* The outer loop of hasCycle over m_nodes in map order
RECURSIVE hasCycleOuter(_, _, _)
hasCycleOuter(adj, names, color) ==
    IF names = <<>> THEN "false"
    ELSE IF color[Head(names)] = 0
         THEN LET r == hasCycleDFS(adj, Head(names), color)
              IN  IF r.res # "false" THEN r.res
                  ELSE hasCycleOuter(adj, Tail(names), r.color)
         ELSE hasCycleOuter(adj, Tail(names), color)

\* hasCycle() const: "true", "false", or "out_of_range" when .at() throws
hasCycleValue(nodes, adj) ==
    hasCycleOuter(adj, SortedSeq(DOMAIN nodes), [n \in DOMAIN nodes |-> 0])

hasCycle ==
    /\ cycleResult' = hasCycleValue(m_nodes, m_adjacencyList)
    /\ UNCHANGED <<m_nodes, m_adjacencyList, schedResult>>

buildSchedule ==
    LET cd == computeDependencies(m_nodes)
        k  == Kahn(cd)
    IN  /\ m_nodes' = cd.nodes
        /\ m_adjacencyList' = k.adj
        /\ schedResult' = ScheduleOrThrow(k.schedule, Cardinality(DOMAIN m_nodes))
        /\ cycleResult' = "none"

-----------------------------------------------------------------------------
(* domain::DomainSplitter::computeNeighbors                                *)

\* Inclusive bounding boxes of full leaves (8x8x8 active voxels).  A leaf is
\* named by the Morton code of its position (getMortonCode: the bits of x go
\* to bits 0, 3, .. of the code, those of y to bits 1, 4, .., those of z to
\* bits 2, 5, ..).  The positions are a 2 x 2 x 2 block and two leaves at
\* y = 2, which leave a gap to the leaves at y = 0.
LeafDim == 8
Cells == (0..7) \cup {16, 17}
CellBox(c) ==
    LET x == (c % 2) + 2 * ((c \div 8) % 2)
        y == ((c \div 2) % 2) + 2 * ((c \div 16) % 2)
        z == ((c \div 4) % 2) + 2 * ((c \div 32) % 2)
    IN  [min |-> <<LeafDim * x, LeafDim * y, LeafDim * z>>,
         max |-> <<LeafDim * x + LeafDim - 1, LeafDim * y + LeafDim - 1,
                   LeafDim * z + LeafDim - 1>>]

\* dx, dy, dz of computeNeighbors for one axis (1-based here)
AxisStep(boxA, boxB, axis) ==
    IF boxA.max[axis] + 1 = boxB.min[axis] THEN 1
    ELSE IF boxB.max[axis] + 1 = boxA.min[axis] THEN -1
    ELSE 0

\* The link that computeNeighbors pushes for the pair (i, j), i < j, as
\* <<face of i, face of j>>, or <<>> when the pair gets no link
PairFacesSameSide(boxA, boxB) ==
    IF AxisStep(boxA, boxB, 1) = 1 THEN <<1, 1>> ELSE <<>>
PairFaces(boxA, boxB) ==
    LET dx == AxisStep(boxA, boxB, 1)
        dy == AxisStep(boxA, boxB, 2)
        dz == AxisStep(boxA, boxB, 3)
    IN  IF ~((dx # 0 \/ dy # 0 \/ dz # 0) /\ dx * dx + dy * dy + dz * dz <= 2)
        THEN <<>>
        ELSE IF dx = 1 /\ dy = 0 /\ dz = 0 THEN <<1, 0>>
        ELSE IF dx = -1 /\ dy = 0 /\ dz = 0 THEN <<0, 1>>
        ELSE IF dy = 1 /\ dx = 0 /\ dz = 0 THEN <<3, 2>>
        ELSE IF dy = -1 /\ dx = 0 /\ dz = 0 THEN <<2, 3>>
        ELSE IF dz = 1 /\ dx = 0 /\ dy = 0 THEN <<5, 4>>
        ELSE IF dz = -1 /\ dx = 0 /\ dy = 0 THEN <<4, 5>>
        ELSE <<>>

\* domains[g].neighbors after computeNeighbors: the pairs (i, j), i < j, are
\* visited in order and each link is pushed on both sides.  gpuIndex is
\* 0-based as in the code; boxes is 1-based.
NeighborsOf(boxes, g) ==
    LET n == Len(boxes)
        link(o) ==
            IF o = g THEN <<>>
            ELSE LET lo == IF o < g THEN o ELSE g
                     hi == IF o < g THEN g ELSE o
                     pf == PairFaces(boxes[lo + 1], boxes[hi + 1])
                 IN  IF pf = <<>> THEN <<>>
                     ELSE <<[gpuIndex |-> o, face |-> IF g = lo THEN pf[1] ELSE pf[2]]>>
        RECURSIVE collect(_)
        collect(o) == IF o >= n THEN <<>> ELSE link(o) \o collect(o + 1)
    IN  collect(0)

computeNeighbors(domains) ==
    LET boxes == [i \in 1..Len(domains) |-> domains[i].bounds]
    IN  [i \in 1..Len(domains) |->
            [domains[i] EXCEPT !.neighbors = NeighborsOf(boxes, i - 1)]]

-----------------------------------------------------------------------------
(* domain::DomainSplitter::split                                           *)

Min(a, b) == IF a < b THEN a ELSE b
Max(a, b) == IF a > b THEN a ELSE b

\* nanovdb::CoordBBox::expand(bbox), volume(), isInside(coord)
expand(box, other) ==
    [min |-> [a \in 1..3 |-> Min(box.min[a], other.min[a])],
     max |-> [a \in 1..3 |-> Max(box.max[a], other.max[a])]]

volume(box) ==
    (box.max[1] - box.min[1] + 1) * (box.max[2] - box.min[2] + 1)
        * (box.max[3] - box.min[3] + 1)

\* every voxel of box inner lies inside box outer
isInside(outer, inner) ==
    \A a \in 1..3 : outer.min[a] <= inner.min[a] /\ inner.max[a] <= outer.max[a]

\* The leaves of the grid whose active voxels the loop "if
\* (currentBounds.isInside(it.getCoord()))" counts: leaves are full and the
\* bounds are unions of leaf boxes, so a leaf is inside or outside as a whole
LeavesInside(grid, bounds) == {c \in grid : isInside(bounds, CellBox(c))}

\* the active voxels of the grid inside bounds, counted
VoxelsInside(grid, bounds) ==
    Cardinality(LeavesInside(grid, bounds)) * volume(CellBox(0))

\* hostGrid->activeVoxelCount()
activeVoxelCount(grid) == Cardinality(grid) * volume(CellBox(0))

\* a default-constructed nanovdb::CoordBBox, which is empty
EmptyBBox == [min |-> <<2147483647, 2147483647, 2147483647>>,
              max |-> <<-2147483647 - 1, -2147483647 - 1, -2147483647 - 1>>]

\* a default-constructed SubDomain
NewSubDomain ==
    [gpuIndex |-> 0, bounds |-> EmptyBBox, activeVoxelCount |-> 0,
     assignedLeaves |-> <<>>, neighbors |-> <<>>]

\* "if ((currentCount >= targetPerGPU && currentGpu < gpuCount - 1) || isLastLeaf)"
Finalize(currentCount, targetPerGPU, currentGpu, gpuCnt, isLastLeaf) ==
    (currentCount >= targetPerGPU /\ currentGpu < gpuCnt - 1) \/ isLastLeaf

\* The loop of split() over the leaves sorted by Morton code.  st holds the
\* locals domains (0-based here as in the code), currentGpu, currentCount,
\* currentBounds and boundsInitialized.
RECURSIVE splitLoop(_, _, _, _, _)
splitLoop(sorted, k, st, grid, gpuCnt) ==
    IF k > Len(sorted) THEN st.domains
    ELSE LET leafBox == CellBox(sorted[k])
             bounds  == IF st.boundsInitialized THEN expand(st.currentBounds, leafBox)
                        ELSE leafBox
             count   == st.currentCount + volume(leafBox)
             g       == st.currentGpu
             pushed  == [st.domains EXCEPT
                            ![g].assignedLeaves = Append(@, sorted[k])]
             isLastLeaf == k = Len(sorted)
             targetPerGPU == activeVoxelCount(grid) \div gpuCnt
         IN  IF Finalize(count, targetPerGPU, g, gpuCnt, isLastLeaf)
             THEN LET done == [pushed EXCEPT
                                  ![g].gpuIndex = g,
                                  ![g].bounds = bounds,
                                  ![g].activeVoxelCount = VoxelsInside(grid, bounds)]
                  IN  splitLoop(sorted, k + 1,
                                IF isLastLeaf
                                THEN [st EXCEPT !.domains = done, !.currentCount = count,
                                                !.currentBounds = bounds,
                                                !.boundsInitialized = TRUE]
                                ELSE [domains |-> done, currentGpu |-> g + 1,
                                      currentCount |-> 0, currentBounds |-> bounds,
                                      boundsInitialized |-> FALSE],
                                grid, gpuCnt)
             ELSE splitLoop(sorted, k + 1,
                            [st EXCEPT !.domains = pushed, !.currentCount = count,
                                       !.currentBounds = bounds,
                                       !.boundsInitialized = TRUE],
                            grid, gpuCnt)

\* "Trim unused domains": the std::vector without the domains that got no leaf
trimUnused(domains, gpuCnt) ==
    SelectSeq([i \in 1..gpuCnt |-> domains[i - 1]], LAMBDA d : d.assignedLeaves # <<>>)

\* hostGrid->gridMetaData()->indexBBox(): the union of the leaf boxes, the
\* empty box for a grid without leaves
RECURSIVE expandAll(_)
expandAll(leafSeq) ==
    IF leafSeq = <<>> THEN EmptyBBox
    ELSE IF Len(leafSeq) = 1 THEN CellBox(leafSeq[1])
    ELSE expand(expandAll(Tail(leafSeq)), CellBox(Head(leafSeq)))

\* split(grid) under SplitConfig::gpuCount = gpuCnt, for a grid given as the
\* set of its (full) leaves
split(grid, gpuCnt) ==
    LET sorted == SortedSeq(grid)
    IN  IF gpuCnt = 1
        THEN <<[gpuIndex |-> 0, bounds |-> expandAll(sorted),
                activeVoxelCount |-> activeVoxelCount(grid),
                assignedLeaves |-> sorted, neighbors |-> <<>>]>>
        ELSE computeNeighbors(
                 trimUnused(
                     splitLoop(sorted, 1,
                               [domains |-> [g \in 0..gpuCnt - 1 |-> NewSubDomain],
                                currentGpu |-> 0, currentCount |-> 0,
                                currentBounds |-> EmptyBBox,
                                boundsInitialized |-> FALSE],
                               grid, gpuCnt),
                     gpuCnt))

\* The grids step() is run on: up to MaxGpus leaves
Grids == {T \in SUBSET Cells : T # {} /\ Cardinality(T) <= MaxGpus}

-----------------------------------------------------------------------------
(* halo::HaloManager                                                       *)

m_haloThickness == 2

Faces == 0..5

\* calculateFaceDimensions and allocateFieldHalos: thickness * width * height
haloVoxelCount(bounds, face) ==
    LET dimX == bounds.max[1] - bounds.min[1] + 1
        dimY == bounds.max[2] - bounds.min[2] + 1
        dimZ == bounds.max[3] - bounds.min[3] + 1
        width  == IF face \in {0, 1} THEN dimY ELSE dimX
        height == IF face \in {4, 5} THEN dimY ELSE dimZ
    IN  m_haloThickness * width * height

\* getHaloSemaphore: the handle is the slot srcGpu * gpuCount + dstGpu
getHaloSemaphore(srcGpu, dstGpu, gpuCount) == srcGpu * gpuCount + dstGpu

\* createHaloSemaphores: one timeline semaphore per ordered pair, initial value 0
createHaloSemaphores(gpuCount) ==
    [h \in {getHaloSemaphore(src, dst, gpuCount) :
              <<src, dst>> \in {p \in (0..gpuCount - 1) \X (0..gpuCount - 1) : p[1] # p[2]}}
        |-> 0]

Unwritten == [gpu |-> -1, face |-> -1, step |-> 0]

\* allocateFieldHalos for every field and gpu: buffers are created, not filled
allocateFieldHalos(fields, gpuCount) ==
    [f \in SeqRange(fields) |-> [g \in 0..gpuCount - 1 |-> [face \in Faces |-> Unwritten]]]

-----------------------------------------------------------------------------
(* graph::GraphExecutor: command recording                                 *)

Barrier(srcStage, dstStage, srcAccess, dstAccess) ==
    [op |-> "barrier", srcStage |-> srcStage, dstStage |-> dstStage,
     srcAccess |-> srcAccess, dstAccess |-> dstAccess]

\* recordMemoryBarrier
recordMemoryBarrier == Barrier("ComputeShader", "ComputeShader", {"ShaderWrite"}, {"ShaderRead"})

\* The three barriers of recordHaloExchange
packBarrier == Barrier("ComputeShader", "ComputeShader", {"ShaderWrite"}, {"ShaderRead"})
transferBarrier == Barrier("ComputeShader", "Transfer", {"ShaderWrite"}, {"TransferRead"})
unpackBarrier == Barrier("Transfer", "ComputeShader", {"TransferWrite"}, {"ShaderRead"})

\* simple logic of recordHaloExchange: 0<->1, 2<->3, 4<->5
oppositeFace(face) == IF face % 2 = 0 THEN face + 1 ELSE face - 1

\* The (field, neighbor) pairs the nested loops of recordHaloExchange visit,
\* in order, without those skipped by "if (count == 0) continue"
ExchangePairs(fields, domain) ==
    LET nn  == Len(domain.neighbors)
        all == [k \in 1..(Len(fields) * nn) |->
                   [field    |-> fields[((k - 1) \div nn) + 1],
                    neighbor |-> domain.neighbors[((k - 1) % nn) + 1]]]
    IN  SelectSeq(all, LAMBDA p : haloVoxelCount(domain.bounds, p.neighbor.face) # 0)

\* HaloSync::recordHaloPack: field buffer -> remoteHalos[face] of this gpu
recordHaloPack(p, domain) ==
    <<[op |-> "pack", field |-> p.field, gpu |-> domain.gpuIndex, face |-> p.neighbor.face]>>

\* HaloSync::recordHaloTransfer: my remoteHalos[face] -> neighbor's localHalos[oppositeFace]
\* of "count * 4" bytes
recordHaloTransfer(p, domain) ==
    <<[op |-> "copy", field |-> p.field,
       size |-> haloVoxelCount(domain.bounds, p.neighbor.face) * 4,
       srcGpu |-> domain.gpuIndex, srcFace |-> p.neighbor.face,
       dstGpu |-> p.neighbor.gpuIndex, dstFace |-> oppositeFace(p.neighbor.face)]>>

\* HaloSync::recordHaloUnpack: its own barrier, then localHalos[face] -> field buffer
recordHaloUnpack(p, domain) ==
    <<Barrier("Transfer", "ComputeShader", {"ShaderWrite"}, {"ShaderRead", "TransferRead"}),
      [op |-> "unpack", field |-> p.field, gpu |-> domain.gpuIndex, face |-> p.neighbor.face]>>

RECURSIVE Flatten(_)
Flatten(ss) == IF ss = <<>> THEN <<>> ELSE Head(ss) \o Flatten(Tail(ss))

\* The order in which recordHaloExchange records its three phases
HaloCommandsMisordered(packs, copies, unpacks) ==
    <<packBarrier>> \o packs \o copies \o <<transferBarrier>> \o <<unpackBarrier>> \o unpacks
HaloCommands(packs, copies, unpacks) ==
    <<packBarrier>> \o packs \o <<transferBarrier>> \o copies \o <<unpackBarrier>> \o unpacks

\* m_signalValues.push_back(1) and m_waitValues.push_back(1)
signalValue == 1
waitValue == 1

recordHaloExchange(fields, domain, gpuCount) ==
    LET pairs == ExchangePairs(fields, domain)
        idx   == 1..Len(pairs)
    IN  [cmd |-> HaloCommands(Flatten([k \in idx |-> recordHaloPack(pairs[k], domain)]),
                              Flatten([k \in idx |-> recordHaloTransfer(pairs[k], domain)]),
                              Flatten([k \in idx |-> recordHaloUnpack(pairs[k], domain)])),
         signalSemaphores |->
             [k \in idx |-> getHaloSemaphore(domain.gpuIndex, pairs[k].neighbor.gpuIndex, gpuCount)],
         signalValues |-> [k \in idx |-> signalValue],
         waitSemaphores |->
             [k \in idx |-> getHaloSemaphore(pairs[k].neighbor.gpuIndex, domain.gpuIndex, gpuCount)],
         waitValues |-> [k \in idx |-> waitValue]]

\* "if (stencilCount < schedule.size() - 1)": stencilCount is 0-based
BarrierAfterNever(stencilCount, scheduleSize) == FALSE
BarrierAfter(stencilCount, scheduleSize) == stencilCount < scheduleSize - 1

\* The stencil loop of recordTimestep: dispatch, then a barrier unless last
recordStencilsButLast(schedule) ==
    Flatten([k \in 1..Len(schedule) - 1 |->
                <<[op |-> "dispatch", stencil |-> schedule[k]], recordMemoryBarrier>>])
recordStencils(schedule) ==
    Flatten([k \in 1..Len(schedule) |->
                <<[op |-> "dispatch", stencil |-> schedule[k]]>>
                \o (IF BarrierAfter(k - 1, Len(schedule)) THEN <<recordMemoryBarrier>> ELSE <<>>)])

recordTimestep(schedule, fields, domain, gpuCount) ==
    LET h == recordHaloExchange(fields, domain, gpuCount)
    IN  [h EXCEPT !.cmd = h.cmd \o recordStencils(schedule)]

\* Nothing handed to the queue
NoSubmission ==
    [pending |-> FALSE, cmd |-> <<>>, waitSemaphores |-> <<>>, waitValues |-> <<>>,
     signalSemaphores |-> <<>>, signalValues |-> <<>>]

-----------------------------------------------------------------------------
(* field::FieldRegistry                                                    *)

MAX_FIELDS == 256

\* The switch of registerField; 0 stands for the default branch, which throws
elementSize(format) ==
    CASE format \in {"eR32Sfloat", "eR32Sint"} -> 4
      [] format \in {"eR32G32Sfloat", "eR32G32Sint"} -> 8
      [] format \in {"eR32G32B32Sfloat", "eR32G32B32Sint"} -> 12
      [] format \in {"eR32G32B32A32Sfloat", "eR32G32B32A32Sint"} -> 16
      [] OTHER -> 0

\* "desc.descriptorIndex = m_nextDescriptorIndex++": the value the counter takes
NextIndexStuck(index) == index
NextIndex(index) == index + 1

\* "if (m_nextDescriptorIndex >= MAX_FIELDS)"
FieldLimitReachedNever(index) == FALSE
FieldLimitReached(index) == index >= MAX_FIELDS

\* registerField(name, format, initialValue).  allocated: createBuffer
\* succeeds; address: what getBufferAddress returns for the new buffer;
\* filled: the initial fill of the buffer succeeds.  A rejected call ends
\* with the message of its std::runtime_error.
registerField(name, format, allocated, address, filled) ==
    IF name \in DOMAIN m_fields
        \/ FieldLimitReached(m_nextDescriptorIndex)
        \/ elementSize(format) = 0
    THEN /\ registerResult' =
                IF name \in DOMAIN m_fields THEN "Field already exists"
                ELSE IF FieldLimitReached(m_nextDescriptorIndex)
                     THEN "Maximum number of fields exceeded"
                ELSE "Unsupported field format"
         /\ UNCHANGED <<m_fields, m_nextDescriptorIndex, m_bdaTableMapped>>
    ELSE LET desc == [name |-> name, format |-> format,
                      elementSize |-> elementSize(format),
                      descriptorIndex |-> m_nextDescriptorIndex,
                      deviceAddress |-> address]
         IN  /\ m_nextDescriptorIndex' = NextIndex(m_nextDescriptorIndex)
             /\ IF ~allocated
                THEN /\ registerResult' = "throw"
                     /\ UNCHANGED <<m_fields, m_bdaTableMapped>>
                ELSE /\ m_bdaTableMapped' =
                            [i \in DOMAIN m_bdaTableMapped \cup {desc.descriptorIndex} |->
                                IF i = desc.descriptorIndex THEN address
                                ELSE m_bdaTableMapped[i]]
                     /\ m_fields' = (name :> desc) @@ m_fields
                     /\ registerResult' = IF filled THEN "ok" ELSE "throw"

-----------------------------------------------------------------------------
(* refinement::TopologyRebuilder::processRefinementActions                 *)

\* int32 division by 2 as C++ does it: the quotient is truncated towards 0
TruncDiv2(a) == IF a >= 0 THEN a \div 2 ELSE -((-a) \div 2)

\* "nanovdb::Coord parent(c[0] / 2, c[1] / 2, c[2] / 2)"
ParentOf(c) == <<TruncDiv2(c[1]), TruncDiv2(c[2]), TruncDiv2(c[3])>>

\* "baseCoord = oldLUT[i] * 2", then baseCoord + (dx, dy, dz) for dx, dy, dz in 0..1
ChildrenOf(c) ==
    {<<2 * c[1] + d[1], 2 * c[2] + d[2], 2 * c[3] + d[3]>> : d \in (0..1) \X (0..1) \X (0..1)}

\* the comparison std::sort is given: by x, then y, then z
CoordLess(a, b) ==
    \/ a[1] < b[1]
    \/ a[1] = b[1] /\ a[2] < b[2]
    \/ a[1] = b[1] /\ a[2] = b[2] /\ a[3] < b[3]

\* std::sort, std::unique, erase: the coordinates once each, ascending
RECURSIVE SortCoords(_)
SortCoords(S) ==
    IF S = {} THEN <<>>
    ELSE LET least == CHOOSE c \in S : \A o \in S \ {c} : CoordLess(c, o)
         IN  <<least>> \o SortCoords(S \ {least})

\* the mask bytes
KEEP == 0
REFINE == 1
COARSEN == 2

\* first pass: parent -> the indices of the voxels marked coarsen under it
siblingGroups(lut, mask) ==
    LET marked == {i \in 1..Len(lut) : mask[i] = COARSEN}
    IN  [parent \in {ParentOf(lut[i]) : i \in marked} |->
            {i \in marked : ParentOf(lut[i]) = parent}]

\* "if (siblings.size() == 8)": the group is replaced by its parent
GroupSize == 8
IsCoarsened(siblings) == Cardinality(siblings) = GroupSize

\* what the loop over the groups pushes
CoarsenOutput(lut, mask) ==
    LET groups == siblingGroups(lut, mask)
    IN  UNION {IF IsCoarsened(groups[parent]) THEN {parent}
               ELSE {lut[i] : i \in groups[parent]} : parent \in DOMAIN groups}

\* what the second pass pushes.  Every index marked coarsen is in
\* "processed" by then, so the pass reaches only the refine branch; for
\* any other action byte it pushes nothing.
SecondPassOutput(lut, mask) ==
    LET processed == {i \in 1..Len(lut) : mask[i] = COARSEN}
    IN  UNION {IF mask[i] = REFINE THEN ChildrenOf(lut[i]) ELSE {} :
                 i \in (1..Len(lut)) \ processed}

processRefinementActions(lut, mask) ==
    SortCoords(CoarsenOutput(lut, mask) \cup SecondPassOutput(lut, mask))

-----------------------------------------------------------------------------
(* refinement::RefinementManager                                           *)

\* Criteria{} as declared
DefaultCriteria == [minRefinementLevel |-> 0, maxRefinementLevel |-> 3]

NoStats == [cellsRefined |-> 0, cellsCoarsened |-> 0, totalActiveCells |-> 0]

\* position of a coordinate in a LUT (oldCoordMap), 0 when absent
IndexIn(lut, coord) ==
    IF \E i \in 1..Len(lut) : lut[i] = coord
    THEN CHOOSE i \in 1..Len(lut) : lut[i] = coord /\ \A j \in (i + 1)..Len(lut) : lut[j] # coord
    ELSE 0

\* the level updateLevels gives one coordinate of the new LUT (uint8_t)
newLevel(coord, old, levels) ==
    LET parent == ParentOf(coord)
        child0 == <<2 * parent[1], 2 * parent[2], 2 * parent[3]>>
    IN  IF IndexIn(old, coord) # 0 THEN levels[IndexIn(old, coord)]
        ELSE IF IndexIn(old, parent) # 0 THEN (levels[IndexIn(old, parent)] + 1) % 256
        ELSE IF IndexIn(old, child0) # 0
             THEN IF levels[IndexIn(old, child0)] > 0
                  THEN levels[IndexIn(old, child0)] - 1 ELSE 0
        ELSE 0

\* updateLevels(newLUT, oldLUT): the new m_hostLevels
updateLevels(newLUT, old, levels) ==
    [i \in 1..Len(newLUT) |-> newLevel(newLUT[i], old, levels)]

\* allocateLevelBuffer(voxelCount) on a new manager: every level 0
allocateLevelBuffer(voxelCount) == [i \in 1..voxelCount |-> 0]

\* the push constants markCells gives the mark shader: voxelCount 0, and 0
\* in the slot the shader reads as maxLevel
markCellsPushConstants == [voxelCount |-> 0, maxLevel |-> 0]

\* the classes of |fieldData[idx]| against the two thresholds
FieldClasses == {"belowCoarsen", "between", "aboveRefine"}

\* main() of the mark shader for thread idx (0-based): the byte mask[idx]
\* holds afterwards
markShader(pc, idx, fieldData, currentLevel, maskByte) ==
    IF idx >= pc.voxelCount THEN maskByte
    ELSE IF fieldData[idx + 1] = "aboveRefine" /\ currentLevel < pc.maxLevel THEN REFINE
    ELSE IF fieldData[idx + 1] = "belowCoarsen" /\ currentLevel > 0 THEN COARSEN
    ELSE KEEP

\* rebuildTopology(): the counts it stores and the flag it returns
rebuildTopology(mask) ==
    LET refined   == Cardinality({i \in 1..Len(mask) : mask[i] = REFINE})
        coarsened == Cardinality({i \in 1..Len(mask) : mask[i] = COARSEN})
    IN  [stats |-> [cellsRefined |-> refined, cellsCoarsened |-> coarsened,
                    totalActiveCells |-> Len(mask)],
         topologyChanged |-> refined > 0 \/ coarsened > 0]

-----------------------------------------------------------------------------
(* nanovdb_adapter::GpuGridManager                                         *)

\* An unsigned integer as the set of the positions of its 1 bits, so that
\* 64-bit shifts and masks are computed bit for bit
BitsOf(v) == {k \in 0..30 : (v \div (2 ^ k)) % 2 = 1}

\* x << n
ShiftLeft(B, n) == {b + n : b \in B}

\* the four masks of expandBits
Mask030000FF == (0..7) \cup {24, 25}
Mask0300F00F == (0..3) \cup (12..15) \cup {24, 25}
Mask030C30C3 == {0, 1, 6, 7, 12, 13, 18, 19, 24, 25}
Mask09249249 == {0, 3, 6, 9, 12, 15, 18, 21, 24, 27}

\* the lambda expandBits of getMortonCode: four shift-or-mask steps
expandBits(v) ==
    LET x0 == BitsOf(v)
        x1 == (x0 \cup ShiftLeft(x0, 16)) \cap Mask030000FF
        x2 == (x1 \cup ShiftLeft(x1, 8)) \cap Mask0300F00F
        x3 == (x2 \cup ShiftLeft(x2, 4)) \cap Mask030C30C3
        x4 == (x3 \cup ShiftLeft(x3, 2)) \cap Mask09249249
    IN  x4

\* getMortonCode(x, y, z) of GpuGridManager, as a set of bit positions
gridMortonCode(c) ==
    expandBits(c[1]) \cup ShiftLeft(expandBits(c[2]), 1) \cup ShiftLeft(expandBits(c[3]), 2)

\* a < b for two unsigned integers given by their bits
KeyLess(A, B) ==
    /\ A # B
    /\ LET diff == (A \ B) \cup (B \ A)
       IN  (CHOOSE b \in diff : \A o \in diff : o <= b) \in B

\* the orders std::sort may leave sortIndices in: no later index has a
\* smaller code than an earlier one; the order of equal codes is not fixed
SortedIndexOrders(activeCoords) ==
    {perm \in [1..Len(activeCoords) -> 1..Len(activeCoords)] :
        /\ \A i, j \in 1..Len(activeCoords) : i # j => perm[i] # perm[j]
        /\ \A i, j \in 1..Len(activeCoords) :
              i < j => ~KeyLess(gridMortonCode(activeCoords[perm[j]]),
                                gridMortonCode(activeCoords[perm[i]]))}

-----------------------------------------------------------------------------
(* stencil::PipelineCache                                                  *)

\* the generated sources, with their SHA-256 digests in hex split after the
\* 8th character: srcA and srcB agree in the first 8 characters only
Sources == {"srcA", "srcB", "srcC"}

computeHash(glslSource) ==
    CASE glslSource = "srcA" -> <<"0a1b2c3d", "aaaa">>
      [] glslSource = "srcB" -> <<"0a1b2c3d", "bbbb">>
      [] glslSource = "srcC" -> <<"4e5f6071", "cccc">>

\* hash.substr(0, 8)
ShortHash(hash) == hash[1]

\* getCachePath: m_cacheDir / (stencilName + "_" + hash.substr(0, 8) + ".spv")
getCachePath(stencilName, hash) == <<stencilName, ShortHash(hash)>>

\* a file: its complete 4-byte words and the bytes of a word cut short
EmptyFile == [words |-> <<>>, bytes |-> 0]

\* "fileSize % 4"
SizeMod4(file) == file.bytes

NoSave == [active |-> FALSE, path |-> <<>>, spirv |-> <<>>]

NoLoad == [name |-> "", source |-> "", result |-> <<>>, expected |-> <<>>,
           origin |-> "", intact |-> TRUE, writerActive |-> FALSE]

\* what load() returns for the directory as it is: a missing file, or a
\* size that is no multiple of 4, gives the empty vector; anything else is
\* returned as it is read.  (Opening an existing file is taken to succeed.)
load(files, stencilName, glslSource) ==
    LET cachePath == getCachePath(stencilName, computeHash(glslSource))
    IN  IF cachePath \notin DOMAIN files THEN <<>>
        ELSE IF SizeMod4(files[cachePath]) # 0 THEN <<>>
        ELSE files[cachePath].words

\* exists()
exists(files, stencilName, glslSource) ==
    getCachePath(stencilName, computeHash(glslSource)) \in DOMAIN files

\* half a word more of spirv in the file
AppendHalfWord(file, spirv) ==
    IF file.bytes = 0
    THEN [file EXCEPT !.bytes = 2]
    ELSE [words |-> Append(file.words, spirv[Len(file.words) + 1]), bytes |-> 0]

\* a function without the keys in K
Without(f, K) == [k \in DOMAIN f \ K |-> f[k]]

-----------------------------------------------------------------------------
(* stencil::StencilRegistry                                                *)

\* the first element of list that is not a registered field, or "" if none
RECURSIVE FirstMissing(_, _)
FirstMissing(list, fields) ==
    IF list = <<>> THEN ""
    ELSE IF Head(list) \notin DOMAIN fields THEN Head(list)
    ELSE FirstMissing(Tail(list), fields)

\* validateStencil: "ok", or the message of the exception it throws
validateStencil(definition, fields) ==
    IF definition.name = "" THEN "Stencil name cannot be empty"
    ELSE IF definition.inputs = <<>> /\ definition.outputs = <<>>
         THEN "Stencil must have inputs or outputs"
    ELSE IF FirstMissing(definition.inputs, fields) # "" THEN "Input field not found"
    ELSE IF FirstMissing(definition.outputs, fields) # "" THEN "Output field not found"
    ELSE "ok"

\* "if (m_stencils.count(definition.name) > 0)"
StencilKnownNever(name) == FALSE
StencilKnown(name) == name \in DOMAIN m_stencils

\* generateComputeShader: the GLSL text is made from the definition's code
generateComputeShader(definition) == definition.code

\* compileToSPIRV: the words glslc produces for a source
compileToSPIRV(glslSource) ==
    CASE glslSource = "srcA" -> <<1, 2>>
      [] glslSource = "srcB" -> <<3>>
      [] glslSource = "srcC" -> <<3, 1>>

\* registerStencil(definition).  compiles: glslc succeeds; saved: the cache
\* file can be opened for writing; pipelineCreated: createComputePipeline
\* succeeds.
registerStencil(definition, compiles, saved, pipelineCreated) ==
    LET valid      == validateStencil(definition, m_fields)
        glslSource == generateComputeShader(definition)
        spirv      == compileToSPIRV(glslSource)
        cached     == load(cacheFiles, definition.name, glslSource)
        cachePath  == getCachePath(definition.name, computeHash(glslSource))
        spirvCode  == IF cached # <<>> THEN cached ELSE spirv
        missed     == [k \in DOMAIN cacheFiles \cup {cachePath} |->
                          IF k = cachePath THEN [words |-> spirv, bytes |-> 0]
                          ELSE cacheFiles[k]]
        outcome    == IF valid # "ok" THEN valid
                      ELSE IF StencilKnown(definition.name) THEN "Stencil already registered"
                      ELSE IF cached = <<>> /\ ~compiles THEN "Shader compilation failed"
                      ELSE IF ~pipelineCreated THEN "Failed to create compute pipeline"
                      ELSE "ok"
        compiled   == valid = "ok" /\ ~StencilKnown(definition.name)
                      /\ cached = <<>> /\ compiles
    IN  /\ stencilCall' = [definition |-> definition, outcome |-> outcome,
                           known |-> definition.name \in DOMAIN m_stencils,
                           steps |-> stepCalls]
        /\ cacheFiles' = IF compiled /\ saved THEN missed ELSE cacheFiles
        /\ m_stencils' = IF outcome = "ok"
                         THEN (definition.name :>
                                  [definition |-> definition, spirvCode |-> spirvCode,
                                   glslSource |-> glslSource]) @@ m_stencils
                         ELSE m_stencils

-----------------------------------------------------------------------------
(* Specifications of the dependency graph                                  *)

\* A constructed DependencyGraph: no nodes, no edges
InitGraphVars ==
    /\ m_nodes = <<>>
    /\ m_adjacencyList = <<>>
    /\ declared = <<>>
    /\ schedResult = NoResult
    /\ cycleResult = "none"

\* A constructed engine before the first step(): no sub-domains, no halos
InitHaloVars ==
    /\ fieldOrder = <<>>
    /\ m_subDomains = <<>>
    /\ hostPc = "idle"
    /\ domainIdx = 0
    /\ stepCalls = 0
    /\ cmdBuf = <<>>
    /\ m_waitSemaphores = <<>>
    /\ m_waitValues = <<>>
    /\ m_signalSemaphores = <<>>
    /\ m_signalValues = <<>>
    /\ submission = NoSubmission
    /\ fenceSignaled = FALSE
    /\ m_haloSemaphores = <<>>
    /\ remoteHalos = <<>>
    /\ localHalos = <<>>
    /\ consumed = <<>>
    /\ signalLog = <<>>
    /\ waitLog = <<>>

\* A constructed FieldRegistry: no fields, the table zeroed
InitFieldVars ==
    /\ m_fields = <<>>
    /\ m_nextDescriptorIndex = 0
    /\ m_bdaTableMapped = [i \in 0..MAX_FIELDS - 1 |-> 0]
    /\ registerResult = "none"
    /\ registryAlive = TRUE

\* A constructed DomainSplitter, split() not called yet
InitSplitVars ==
    /\ hostGrid = {}
    /\ configGpuCount = 1
    /\ splitDomains = <<>>

\* A constructed RefinementManager with default criteria, no grid yet
InitRefineVars ==
    /\ gridLUT = <<>>
    /\ m_hostLevels = <<>>
    /\ maskBuffer = <<>>
    /\ m_criteria = DefaultCriteria
    /\ m_lastStats = NoStats
    /\ oldLUT = <<>>
    /\ oldMask = <<>>
    /\ oldLevels = <<>>
    /\ refinePhase = "mark"
    /\ cycles = 0

\* A constructed GpuGridManager, nothing uploaded
InitUploadVars ==
    /\ uploadGrid = <<>>
    /\ lutCoords = <<>>
    /\ linearValues = <<>>
    /\ uploadResult = "none"

\* A constructed PipelineCache on an empty directory, used by one process
InitCacheVars ==
    /\ cacheProcs = {1}
    /\ cacheFiles = <<>>
    /\ saving = [p \in cacheProcs |-> NoSave]
    /\ lastLoad = NoLoad
    /\ committed = <<>>
    /\ fileOrigin = <<>>
    /\ storeCalls = 0

NoStencilCall == [definition |-> <<>>, outcome |-> "none", known |-> FALSE, steps |-> 0]

\* A constructed StencilRegistry
InitStencilVars ==
    /\ m_stencils = <<>>
    /\ stencilCall = NoStencilCall

\* An engine that has not run decomposeDomain(); no grid file configured
InitDecompVars ==
    /\ gridFileGiven = FALSE
    /\ gridUploads = 0
    /\ haloManagersMade = 0
    /\ haloAllocations = 0
    /\ semaphoreSetsMade = 0

NoSubmit == [made |-> FALSE, recorded |-> FALSE, domains |-> 0, haloManager |-> "null",
             graphExecutor |-> FALSE]

\* A default-constructed engine before initialize()
InitStepVars ==
    /\ m_initialized = FALSE
    /\ engineGpuCount = 1
    /\ engineDomains = 0
    /\ m_haloManager = "null"
    /\ m_graphExecutor = FALSE
    /\ stepPc = "idle"
    /\ stepDomain = 0
    /\ stepOutcome = "none"
    /\ openPools = 0
    /\ openFences = 0
    /\ fenceFailed = FALSE
    /\ lastSubmit = NoSubmit
    /\ engineSteps = 0

InitGraph ==
    InitGraphVars /\ InitHaloVars /\ InitFieldVars /\ InitSplitVars /\ InitRefineVars /\ InitUploadVars /\ InitCacheVars /\ InitStepVars
    /\ InitStencilVars
    /\ InitDecompVars

AddNodeCall ==
    \E name \in NodeNames, reads \in FieldLists, writes \in FieldLists :
        addNode(name, reads, writes) /\ UNCHANGED <<declared, haloVars, fieldVars, splitVars, refineVars, uploadVars, cacheVars, stepVars, stencilVars, decompVars>>

BuildScheduleCall == buildSchedule /\ UNCHANGED <<declared, haloVars, fieldVars, splitVars, refineVars, uploadVars, cacheVars, stepVars, stencilVars, decompVars>>

HasCycleCall == hasCycle /\ UNCHANGED <<declared, haloVars, fieldVars, splitVars, refineVars, uploadVars, cacheVars, stepVars, stencilVars, decompVars>>

NextGraph == AddNodeCall \/ BuildScheduleCall \/ HasCycleCall

SpecGraph == InitGraph /\ [][NextGraph]_vars

\* The same calls, with the order of the addNode calls kept as history
AddNodeDeclared ==
    \E name \in NodeNames, reads \in FieldLists, writes \in FieldLists :
        /\ addNode(name, reads, writes)
        /\ declared' = Append(declared, name)
        /\ UNCHANGED <<haloVars, fieldVars, splitVars, refineVars, uploadVars, cacheVars, stepVars, stencilVars, decompVars>>

NextGraphDecl == AddNodeDeclared \/ BuildScheduleCall

SpecGraphDecl == InitGraph /\ [][NextGraphDecl]_vars

-----------------------------------------------------------------------------
(* script::SimulationEngine::step and the compute queue                    *)

gpuCount == Len(m_subDomains)

\* The stencils addStencil has put into the dependency graph before the
\* first step: stencil 1 writes "x" and every other stencil reads it ...
StarNode(i) ==
    [reads |-> IF i = 1 THEN <<>> ELSE <<"x">>,
     writes |-> IF i = 1 THEN <<"x">> ELSE <<>>,
     dependencies |-> <<>>]

\* ... or two stencils that read each other's output
CycleGraph ==
    (1 :> [reads |-> <<"y">>, writes |-> <<"x">>, dependencies |-> <<>>])
    @@ (2 :> [reads |-> <<"x">>, writes |-> <<"y">>, dependencies |-> <<>>])

StencilGraphs == {[i \in 1..k |-> StarNode(i)] : k \in 0..MaxNodes} \cup {CycleGraph}

\* Iteration orders of the unordered_map getFields() returns
FieldOrders == {<<"x">>, <<"x", "y">>, <<"y", "x">>}

\* decomposeDomain() with one GPU per leaf of the grid: split, then halos for
\* every field and gpu, then semaphores
decomposeDomain(leaves) ==
    LET domains == split(leaves, Cardinality(leaves))
    IN  /\ m_subDomains' = domains
        /\ remoteHalos' = allocateFieldHalos(fieldOrder, Len(domains))
        /\ localHalos' = allocateFieldHalos(fieldOrder, Len(domains))
        /\ m_haloSemaphores' = createHaloSemaphores(Len(domains))
        /\ signalLog' = [h \in DOMAIN createHaloSemaphores(Len(domains)) |-> <<>>]
        /\ waitLog' = [h \in DOMAIN createHaloSemaphores(Len(domains)) |-> <<>>]

\* step(dt) up to the loop over the sub-domains: decomposeDomain() on the
\* first call, then buildSchedule(), whose exception leaves step()
StepBeginOn(grids) ==
    /\ hostPc \in {"idle", "done", "failed"}
    /\ stepCalls < MaxSteps
    /\ stepCalls' = stepCalls + 1
    /\ IF m_subDomains = <<>>
       THEN \E leaves \in grids : decomposeDomain(leaves)
       ELSE UNCHANGED <<m_subDomains, remoteHalos, localHalos, m_haloSemaphores,
                        signalLog, waitLog>>
    /\ buildSchedule
    /\ hostPc' = IF schedResult'.kind = "ok" THEN "record" ELSE "failed"
    /\ domainIdx' = 1
    /\ consumed' = allocateFieldHalos(fieldOrder, Len(m_subDomains'))
    /\ UNCHANGED <<declared, fieldOrder, cmdBuf, m_waitSemaphores, m_waitValues,
                   m_signalSemaphores, m_signalValues, submission, fenceSignaled>>
    /\ UNCHANGED <<fieldVars, splitVars, refineVars, uploadVars, cacheVars, stepVars, stencilVars, decompVars>>

StepBegin == StepBeginOn(Grids)

RECURSIVE LogValues(_, _, _)
LogValues(log, semaphores, values) ==
    IF semaphores = <<>> THEN log
    ELSE LogValues([log EXCEPT ![Head(semaphores)] = Append(@, Head(values))],
                   Tail(semaphores), Tail(values))

\* One turn of the loop up to the submit: recordTimestep into a fresh
\* command buffer, then queue submit with the executor's semaphore lists
RecordSubmit ==
    /\ hostPc = "record"
    /\ \E r \in {recordTimestep(schedResult.schedule, fieldOrder,
                                  m_subDomains[domainIdx], gpuCount)} :
           /\ cmdBuf' = r.cmd
           /\ m_waitSemaphores' = r.waitSemaphores
           /\ m_waitValues' = r.waitValues
           /\ m_signalSemaphores' = r.signalSemaphores
           /\ m_signalValues' = r.signalValues
           /\ submission' = [pending |-> TRUE, cmd |-> r.cmd,
                             waitSemaphores |-> r.waitSemaphores,
                             waitValues |-> r.waitValues,
                             signalSemaphores |-> r.signalSemaphores,
                             signalValues |-> r.signalValues]
           /\ signalLog' = LogValues(signalLog, r.signalSemaphores, r.signalValues)
           /\ waitLog' = LogValues(waitLog, r.waitSemaphores, r.waitValues)
    /\ fenceSignaled' = FALSE
    /\ hostPc' = "fence"
    /\ UNCHANGED <<fieldOrder, m_subDomains, domainIdx, stepCalls, m_haloSemaphores,
                   remoteHalos, localHalos, consumed>>
    /\ UNCHANGED <<graphVars, fieldVars, splitVars, refineVars, uploadVars, cacheVars, stepVars, stencilVars, decompVars>>

\* The effect of the commands of one batch on the halo buffers
RECURSIVE Execute(_, _)
Execute(cmd, mem) ==
    IF cmd = <<>> THEN mem
    ELSE LET c == Head(cmd)
             next ==
                 CASE c.op = "pack" ->
                        [mem EXCEPT !.remote[c.field][c.gpu][c.face] =
                            [gpu |-> c.gpu, face |-> c.face, step |-> stepCalls]]
                   [] c.op = "copy" ->
                        [mem EXCEPT !.local[c.field][c.dstGpu][c.dstFace] =
                            mem.remote[c.field][c.srcGpu][c.srcFace]]
                   [] c.op = "unpack" ->
                        [mem EXCEPT !.consumed[c.field][c.gpu][c.face] =
                            mem.local[c.field][c.gpu][c.face]]
                   [] OTHER -> mem
         IN  Execute(Tail(cmd), next)

RECURSIVE Signal(_, _, _)
Signal(counters, semaphores, values) ==
    IF semaphores = <<>> THEN counters
    ELSE Signal([counters EXCEPT ![Head(semaphores)] = Head(values)],
                Tail(semaphores), Tail(values))

\* A timeline semaphore wait is satisfied once the counter has reached the value
WaitsSatisfied(batch) ==
    \A k \in 1..Len(batch.waitSemaphores) :
        m_haloSemaphores[batch.waitSemaphores[k]] >= batch.waitValues[k]

\* The queue runs the submitted batch: it starts when every wait is
\* satisfied (wait stage: compute shader, the stage of the first command),
\* and on completion signals the semaphores and then the fence
GpuExecute ==
    /\ submission.pending
    /\ WaitsSatisfied(submission)
    /\ LET mem == Execute(submission.cmd,
                          [remote |-> remoteHalos, local |-> localHalos,
                           consumed |-> consumed])
       IN  /\ remoteHalos' = mem.remote
           /\ localHalos' = mem.local
           /\ consumed' = mem.consumed
    /\ m_haloSemaphores' = Signal(m_haloSemaphores, submission.signalSemaphores,
                                  submission.signalValues)
    /\ submission' = NoSubmission
    /\ fenceSignaled' = TRUE
    /\ UNCHANGED <<fieldOrder, m_subDomains, hostPc, domainIdx, stepCalls, cmdBuf,
                   m_waitSemaphores, m_waitValues, m_signalSemaphores, m_signalValues,
                   signalLog, waitLog>>
    /\ UNCHANGED <<graphVars, fieldVars, splitVars, refineVars, uploadVars, cacheVars, stepVars, stencilVars, decompVars>>

\* waitForFences(fence, VK_TRUE, UINT64_MAX) returns; next sub-domain or return
FenceReturn ==
    /\ hostPc = "fence"
    /\ fenceSignaled
    /\ IF domainIdx < Len(m_subDomains)
       THEN domainIdx' = domainIdx + 1 /\ hostPc' = "record"
       ELSE domainIdx' = domainIdx /\ hostPc' = "done"
    /\ UNCHANGED <<fieldOrder, m_subDomains, stepCalls, cmdBuf,
                   m_waitSemaphores, m_waitValues, m_signalSemaphores, m_signalValues,
                   submission, fenceSignaled, m_haloSemaphores, remoteHalos, localHalos,
                   consumed, signalLog, waitLog>>
    /\ UNCHANGED <<graphVars, fieldVars, splitVars, refineVars, uploadVars, cacheVars, stepVars, stencilVars, decompVars>>

\* An initialized engine with its fields registered and its stencils added
InitHalo ==
    /\ m_nodes \in StencilGraphs
    /\ m_adjacencyList = <<>>
    /\ declared = <<>>
    /\ schedResult = NoResult
    /\ cycleResult = "none"
    /\ fieldOrder \in FieldOrders
    /\ m_subDomains = <<>>
    /\ hostPc = "idle"
    /\ domainIdx = 0
    /\ stepCalls = 0
    /\ cmdBuf = <<>>
    /\ m_waitSemaphores = <<>>
    /\ m_waitValues = <<>>
    /\ m_signalSemaphores = <<>>
    /\ m_signalValues = <<>>
    /\ submission = NoSubmission
    /\ fenceSignaled = FALSE
    /\ m_haloSemaphores = <<>>
    /\ remoteHalos = <<>>
    /\ localHalos = <<>>
    /\ consumed = <<>>
    /\ signalLog = <<>>
    /\ waitLog = <<>>
    /\ InitFieldVars
    /\ InitSplitVars
    /\ InitRefineVars
    /\ InitStepVars
    /\ InitCacheVars
    /\ InitUploadVars
    /\ InitStencilVars
    /\ InitDecompVars

NextHalo == StepBegin \/ RecordSubmit \/ GpuExecute \/ FenceReturn

SpecHalo == InitHalo /\ [][NextHalo]_vars

\* Inside step() the host thread keeps running and the queue keeps executing
\* what it can; whether step() is called again is up to the caller
Progress == RecordSubmit \/ GpuExecute \/ FenceReturn

SpecHaloFair == InitHalo /\ [][NextHalo]_vars /\ WF_vars(Progress)

-----------------------------------------------------------------------------
(* Specification of the field registry                                     *)

FieldNames == {"x", "y", "z"}

Formats == {"eR32Sfloat", "eR32G32B32A32Sfloat", "eR8Unorm"}

\* device addresses getBufferAddress can return
MaxAddress == 3
Addresses == 1..MaxAddress

\* createBuffer failures explored
MaxFailedAllocations == 2

InitField ==
    InitGraphVars /\ InitHaloVars /\ InitFieldVars /\ InitSplitVars /\ InitRefineVars /\ InitUploadVars /\ InitCacheVars /\ InitStepVars
    /\ InitStencilVars
    /\ InitDecompVars

\* a fresh buffer gets an address no live buffer has
RegisterFieldCall ==
    /\ registryAlive
    /\ \E name \in FieldNames, format \in Formats, allocated \in BOOLEAN,
          address \in Addresses, filled \in BOOLEAN :
        /\ address \notin {m_fields[n].deviceAddress : n \in DOMAIN m_fields}
        /\ allocated \/ m_nextDescriptorIndex - Cardinality(DOMAIN m_fields) < MaxFailedAllocations
        /\ registerField(name, format, allocated, address, filled)
    /\ UNCHANGED registryAlive
    /\ UNCHANGED <<graphVars, haloVars, splitVars, refineVars, uploadVars, cacheVars, stepVars, stencilVars, decompVars>>

\* ~FieldRegistry(): the table buffer is destroyed
DestroyRegistry ==
    /\ registryAlive
    /\ registryAlive' = FALSE
    /\ UNCHANGED <<m_fields, m_nextDescriptorIndex, m_bdaTableMapped, registerResult>>
    /\ UNCHANGED <<graphVars, haloVars, splitVars, refineVars, uploadVars, cacheVars, stepVars, stencilVars, decompVars>>

NextField == RegisterFieldCall \/ DestroyRegistry

SpecField == InitField /\ [][NextField]_vars

-----------------------------------------------------------------------------
(* Specification of the field registry near its capacity                   *)

\* fields "1" .. "254" are registered already; names are numbered here
PreRegistered == 1..(MAX_FIELDS - 2)

\* the names of the calls: one that is registered and four that are not
LateNames == {1} \cup ((MAX_FIELDS - 1)..(MAX_FIELDS + 2))

\* A registry after MAX_FIELDS - 2 successful registerField calls: field k
\* has descriptor index k - 1 and its buffer is at address k
InitFieldFull ==
    /\ InitGraphVars /\ InitHaloVars /\ InitSplitVars /\ InitRefineVars /\ InitUploadVars
    /\ InitCacheVars /\ InitStepVars
    /\ m_fields = [k \in PreRegistered |->
                      [name |-> k, format |-> "eR32Sfloat",
                       elementSize |-> elementSize("eR32Sfloat"),
                       descriptorIndex |-> k - 1, deviceAddress |-> k]]
    /\ m_nextDescriptorIndex = MAX_FIELDS - 2
    /\ m_bdaTableMapped = [i \in 0..MAX_FIELDS - 1 |-> IF i + 1 \in PreRegistered THEN i + 1 ELSE 0]
    /\ registerResult = "none"
    /\ registryAlive = TRUE
    /\ InitStencilVars
    /\ InitDecompVars

\* registerField for a name of LateNames; the buffer of field k is at address k
RegisterLateField ==
    /\ registryAlive
    /\ \E name \in LateNames, format \in Formats, allocated \in BOOLEAN, filled \in BOOLEAN :
        registerField(name, format, allocated, name, filled)
    /\ UNCHANGED registryAlive
    /\ UNCHANGED <<graphVars, haloVars, splitVars, refineVars, uploadVars, cacheVars, stepVars, stencilVars, decompVars>>

NextFieldFull == RegisterLateField

SpecFieldFull == InitFieldFull /\ [][NextFieldFull]_vars

-----------------------------------------------------------------------------
(* Specification of the domain splitter                                    *)

\* DomainSplitter(config): the GPU count is fixed at construction
InitSplit ==
    /\ InitGraphVars /\ InitHaloVars /\ InitFieldVars /\ InitRefineVars /\ InitUploadVars /\ InitCacheVars /\ InitStepVars
    /\ hostGrid = {}
    /\ configGpuCount \in 1..MaxGpus
    /\ splitDomains = <<>>
    /\ InitStencilVars
    /\ InitDecompVars

\* split(grid), of a grid without leaves too.  The result depends on the grid
\* and the configuration only, so one call per splitter shows every result.
SplitCall ==
    /\ hostGrid = {}
    /\ \E grid \in SUBSET Cells :
        /\ hostGrid' = grid
        /\ splitDomains' = split(grid, configGpuCount)
    /\ UNCHANGED configGpuCount
    /\ UNCHANGED <<graphVars, haloVars, fieldVars, refineVars, uploadVars, cacheVars, stepVars, stencilVars, decompVars>>

NextSplit == SplitCall

SpecSplit == InitSplit /\ [][NextSplit]_vars

-----------------------------------------------------------------------------
(* Specification of the topology rebuild                                   *)

\* the coordinates a grid is drawn from: one block of eight siblings and
\* the voxel next to it on the negative side of x
RebuildCoords == ((0..1) \X (0..1) \X (0..1)) \cup {<<-1, 0, 0>>}

MaskBytes == {KEEP, REFINE, COARSEN}

\* A non-empty grid with a level buffer and a mask of one byte per voxel
InitRebuild ==
    /\ InitGraphVars /\ InitHaloVars /\ InitFieldVars /\ InitSplitVars /\ InitUploadVars /\ InitCacheVars /\ InitStepVars
    /\ \E S \in SUBSET RebuildCoords \ {{}} : gridLUT = SortCoords(S)
    /\ m_hostLevels = allocateLevelBuffer(Len(gridLUT))
    /\ maskBuffer \in [1..Len(gridLUT) -> MaskBytes]
    /\ m_criteria = DefaultCriteria
    /\ m_lastStats = NoStats
    /\ oldLUT = <<>>
    /\ oldMask = <<>>
    /\ oldLevels = <<>>
    /\ refinePhase = "rebuild"
    /\ cycles = 0
    /\ InitStencilVars
    /\ InitDecompVars

\* rebuildGrid(oldLUT, values, mask): the LUT of the grid it returns.  The
\* result depends on the LUT and the mask only, so one call per grid shows
\* every result.
RebuildGridCall ==
    /\ cycles = 0
    /\ Len(gridLUT) > 0
    /\ Len(maskBuffer) = Len(gridLUT)
    /\ gridLUT' = processRefinementActions(gridLUT, maskBuffer)
    /\ oldLUT' = gridLUT
    /\ oldMask' = maskBuffer
    /\ cycles' = 1
    /\ UNCHANGED <<m_hostLevels, maskBuffer, m_criteria, m_lastStats, oldLevels, refinePhase>>
    /\ UNCHANGED <<graphVars, haloVars, fieldVars, splitVars, uploadVars, cacheVars, stepVars, stencilVars, decompVars>>

NextRebuild == RebuildGridCall

SpecRebuild == InitRebuild /\ [][NextRebuild]_vars

-----------------------------------------------------------------------------
(* Specification of the refinement cycle                                   *)

MaxCycles == 2
MaxVoxels == 8
MaxLevelLimit == 1

\* the voxels of the first grid
StartCoords == {<<0, 0, 0>>, <<1, 0, 0>>}

\* A manager constructed with criteria whose minimum level is the default
\* and a first grid with its level buffer allocated
InitRefine ==
    /\ InitGraphVars /\ InitHaloVars /\ InitFieldVars /\ InitSplitVars /\ InitUploadVars /\ InitCacheVars /\ InitStepVars
    /\ \E S \in SUBSET StartCoords \ {{}} : gridLUT = SortCoords(S)
    /\ m_hostLevels = allocateLevelBuffer(Len(gridLUT))
    /\ maskBuffer = <<>>
    /\ \E limit \in 1..MaxLevelLimit :
        m_criteria = [DefaultCriteria EXCEPT !.maxRefinementLevel = limit]
    /\ m_lastStats = NoStats
    /\ oldLUT = <<>>
    /\ oldMask = <<>>
    /\ oldLevels = <<>>
    /\ refinePhase = "mark"
    /\ cycles = 0
    /\ InitStencilVars
    /\ InitDecompVars

\* allocateMaskBuffer(voxelCount) for the current grid, then markCells(cmd,
\* field) executed.  The allocation writes nothing to the buffer, so its
\* bytes are arbitrary (any byte other than 1 and 2 is read as no action);
\* fieldData is read only by the threads that pass the voxelCount test.
\* Whether markCells dispatches (totalActiveCells > 0) or not, the buffer
\* holds what markShader leaves in it.
MarkCellsCall ==
    /\ refinePhase = "mark"
    /\ cycles < MaxCycles
    /\ Len(gridLUT) <= MaxVoxels
    /\ \E bytes \in [1..Len(gridLUT) -> MaskBytes] :
       \E fieldData \in [1..Min(Len(gridLUT), markCellsPushConstants.voxelCount) -> FieldClasses] :
            maskBuffer' = [i \in 1..Len(gridLUT) |->
                              markShader(markCellsPushConstants, i - 1, fieldData,
                                         m_hostLevels[i], bytes[i])]
    /\ refinePhase' = "rebuild"
    /\ UNCHANGED <<gridLUT, m_hostLevels, m_criteria, m_lastStats, oldLUT, oldMask,
                   oldLevels, cycles>>
    /\ UNCHANGED <<graphVars, haloVars, fieldVars, splitVars, uploadVars, cacheVars, stepVars, stencilVars, decompVars>>

\* rebuildTopology(gridMgr): reads the mask back, stores the counts and
\* tells whether the topology has to change
RebuildTopologyCall ==
    /\ refinePhase = "rebuild"
    /\ m_lastStats' = rebuildTopology(maskBuffer).stats
    /\ IF rebuildTopology(maskBuffer).topologyChanged
       THEN refinePhase' = "regrid" /\ UNCHANGED cycles
       ELSE refinePhase' = "mark" /\ cycles' = cycles + 1
    /\ UNCHANGED <<gridLUT, m_hostLevels, maskBuffer, m_criteria, oldLUT, oldMask, oldLevels>>
    /\ UNCHANGED <<graphVars, haloVars, fieldVars, splitVars, uploadVars, cacheVars, stepVars, stencilVars, decompVars>>

\* The rest of a cycle after rebuildTopology returned true:
\* rebuildGrid(oldLUT, values, mask), then updateLevels(newLUT, oldLUT)
RegridCall ==
    /\ refinePhase = "regrid"
    /\ \E newLUT \in {processRefinementActions(gridLUT, maskBuffer)} :
        /\ Len(newLUT) <= MaxVoxels
        /\ gridLUT' = newLUT
        /\ m_hostLevels' = updateLevels(newLUT, gridLUT, m_hostLevels)
    /\ oldLUT' = gridLUT
    /\ oldMask' = maskBuffer
    /\ oldLevels' = m_hostLevels
    /\ cycles' = cycles + 1
    /\ refinePhase' = "mark"
    /\ UNCHANGED <<maskBuffer, m_criteria, m_lastStats>>
    /\ UNCHANGED <<graphVars, haloVars, fieldVars, splitVars, uploadVars, cacheVars, stepVars, stencilVars, decompVars>>

NextRefine == MarkCellsCall \/ RebuildTopologyCall \/ RegridCall

SpecRefine == InitRefine /\ [][NextRefine]_vars

-----------------------------------------------------------------------------
(* Specification of the grid upload                                        *)

MaxUploadVoxels == 3

\* the active coordinates a host grid is drawn from; 1024 is the first
\* component value with a bit above bit 9
UploadCoords == {0, 1, 1024} \X (0..1) \X (0..1)

VoxelValues == {10, 20}

\* A host grid: up to MaxUploadVoxels active voxels, each with a value
InitUpload ==
    /\ InitGraphVars /\ InitHaloVars /\ InitFieldVars /\ InitSplitVars /\ InitRefineVars /\ InitCacheVars /\ InitStepVars
    /\ \E S \in SUBSET UploadCoords :
        /\ Cardinality(S) <= MaxUploadVoxels
        /\ uploadGrid \in [S -> VoxelValues]
    /\ lutCoords = <<>>
    /\ linearValues = <<>>
    /\ uploadResult = "none"
    /\ InitStencilVars
    /\ InitDecompVars

\* upload(grid).  activeCoords is the order the leaves are walked in; a
\* failing createBuffer or uploadToGPU throws like the empty grid does.
UploadCall ==
    /\ uploadResult = "none"
    /\ LET activeCoords == SortCoords(DOMAIN uploadGrid)
           activeValues == [i \in 1..Len(activeCoords) |-> uploadGrid[activeCoords[i]]]
       IN  IF Len(activeCoords) = 0
           THEN uploadResult' = "error" /\ UNCHANGED <<lutCoords, linearValues>>
           ELSE \/ \E sortIndices \in SortedIndexOrders(activeCoords) :
                     /\ lutCoords' = [i \in 1..Len(activeCoords) |-> activeCoords[sortIndices[i]]]
                     /\ linearValues' = [i \in 1..Len(activeCoords) |-> activeValues[sortIndices[i]]]
                     /\ uploadResult' = "ok"
                \/ uploadResult' = "error" /\ UNCHANGED <<lutCoords, linearValues>>
    /\ UNCHANGED uploadGrid
    /\ UNCHANGED <<graphVars, haloVars, fieldVars, splitVars, refineVars, cacheVars, stepVars, stencilVars, decompVars>>

NextUpload == UploadCall

SpecUpload == InitUpload /\ [][NextUpload]_vars

-----------------------------------------------------------------------------
(* Specifications of the pipeline cache                                    *)

MaxStores == 2
MaxProcs == 2

StencilNames == {"advect", "diffuse"}

\* the SPIR-V a save is given, as words
Bodies == {<<1, 2>>, <<3>>}

InitCache ==
    /\ InitGraphVars /\ InitHaloVars /\ InitFieldVars /\ InitSplitVars /\ InitRefineVars
    /\ InitUploadVars /\ InitStepVars
    /\ InitCacheVars
    /\ InitStencilVars
    /\ InitDecompVars

\* Several processes, each with its own PipelineCache on the same directory
InitCacheShared ==
    /\ InitGraphVars /\ InitHaloVars /\ InitFieldVars /\ InitSplitVars /\ InitRefineVars
    /\ InitUploadVars /\ InitStepVars
    /\ cacheProcs = 1..MaxProcs
    /\ cacheFiles = <<>>
    /\ saving = [p \in cacheProcs |-> NoSave]
    /\ lastLoad = NoLoad
    /\ committed = <<>>
    /\ fileOrigin = <<>>
    /\ storeCalls = 0
    /\ InitStencilVars
    /\ InitDecompVars

CacheFrame == UNCHANGED <<graphVars, haloVars, fieldVars, splitVars, refineVars, uploadVars, stepVars, stencilVars, decompVars>>

\* save(), first part: std::ofstream file(cachePath, binary).  Opening
\* creates the file or cuts an existing one to length 0; if it fails save
\* returns with the directory as it was.
SaveOpen(p) ==
    /\ ~saving[p].active
    /\ storeCalls < MaxStores
    /\ storeCalls' = storeCalls + 1
    /\ \E stencilName \in StencilNames, glslSource \in Sources, spirv \in Bodies :
        LET cachePath == getCachePath(stencilName, computeHash(glslSource))
        IN  \/ /\ cacheFiles' = [k \in DOMAIN cacheFiles \cup {cachePath} |->
                                    IF k = cachePath THEN EmptyFile ELSE cacheFiles[k]]
               /\ saving' = [saving EXCEPT ![p] =
                                [active |-> TRUE, path |-> cachePath, spirv |-> spirv]]
               /\ committed' = Without(committed, {<<stencilName, glslSource>>})
               /\ fileOrigin' = [k \in DOMAIN fileOrigin \cup {cachePath} |->
                                    IF k = cachePath
                                    THEN [name |-> stencilName, source |-> glslSource,
                                          spirv |-> spirv]
                                    ELSE fileOrigin[k]]
            \/ UNCHANGED <<cacheFiles, saving, committed, fileOrigin>>
    /\ UNCHANGED <<cacheProcs, lastLoad>>
    /\ CacheFrame

\* the file as process p sees it through its open stream
Written(p) ==
    IF saving[p].path \in DOMAIN cacheFiles THEN cacheFiles[saving[p].path] ELSE EmptyFile

\* save(), file.write(...): the bytes reach the file a part at a time
SaveWrite(p) ==
    /\ saving[p].active
    /\ saving[p].path \in DOMAIN cacheFiles
    /\ Len(Written(p).words) < Len(saving[p].spirv)
    /\ cacheFiles' = [cacheFiles EXCEPT ![saving[p].path] =
                          AppendHalfWord(Written(p), saving[p].spirv)]
    /\ UNCHANGED <<cacheProcs, saving, lastLoad, committed, fileOrigin, storeCalls>>
    /\ CacheFrame

\* save(), file.close() after every byte was written: the save is complete
SaveClose(p) ==
    /\ saving[p].active
    /\ Written(p) = [words |-> saving[p].spirv, bytes |-> 0]
    /\ saving[p].path \in DOMAIN cacheFiles
    /\ saving' = [saving EXCEPT ![p] = NoSave]
    /\ LET origin == fileOrigin[saving[p].path]
           key == <<origin.name, origin.source>>
       IN  committed' = [k \in DOMAIN committed \cup {key} |->
                            IF k = key THEN saving[p].spirv ELSE committed[k]]
    /\ UNCHANGED <<cacheProcs, cacheFiles, lastLoad, fileOrigin, storeCalls>>
    /\ CacheFrame

\* save() when a write fails (no exception is enabled on the stream, the
\* stream goes bad and save returns) or the process dies: the file keeps
\* what reached it
SaveFail(p) ==
    /\ saving[p].active
    /\ Written(p) # [words |-> saving[p].spirv, bytes |-> 0] \/ saving[p].path \notin DOMAIN cacheFiles
    /\ saving' = [saving EXCEPT ![p] = NoSave]
    /\ UNCHANGED <<cacheProcs, cacheFiles, lastLoad, committed, fileOrigin, storeCalls>>
    /\ CacheFrame

\* load(stencilName, glslSource)
LoadCall(p) ==
    /\ ~saving[p].active
    /\ \E stencilName \in StencilNames, glslSource \in Sources :
        LET cachePath == getCachePath(stencilName, computeHash(glslSource))
            present == cachePath \in DOMAIN cacheFiles
        IN  lastLoad' =
                [name |-> stencilName, source |-> glslSource,
                 result |-> load(cacheFiles, stencilName, glslSource),
                 expected |-> IF <<stencilName, glslSource>> \in DOMAIN committed
                              THEN committed[<<stencilName, glslSource>>] ELSE <<>>,
                 origin |-> IF present THEN fileOrigin[cachePath].source ELSE "",
                 intact |-> present =>
                     cacheFiles[cachePath] = [words |-> fileOrigin[cachePath].spirv, bytes |-> 0],
                 writerActive |-> \E q \in cacheProcs :
                                     saving[q].active /\ saving[q].path = cachePath]
    /\ UNCHANGED <<cacheProcs, cacheFiles, saving, committed, fileOrigin, storeCalls>>
    /\ CacheFrame

\* clear(): every .spv file of the directory is removed
ClearCall(p) ==
    /\ ~saving[p].active
    /\ cacheFiles # <<>>
    /\ cacheFiles' = <<>>
    /\ committed' = <<>>
    /\ UNCHANGED <<cacheProcs, saving, lastLoad, fileOrigin, storeCalls>>
    /\ CacheFrame

SaveOpenCall == \E p \in cacheProcs : SaveOpen(p)
SaveWriteStep == \E p \in cacheProcs : SaveWrite(p)
SaveCloseStep == \E p \in cacheProcs : SaveClose(p)
SaveFailStep == \E p \in cacheProcs : SaveFail(p)
LoadCallAny == \E p \in cacheProcs : LoadCall(p)
ClearCallAny == \E p \in cacheProcs : ClearCall(p)

NextCache ==
    SaveOpenCall \/ SaveWriteStep \/ SaveCloseStep \/ SaveFailStep \/ LoadCallAny \/ ClearCallAny

SpecCache == InitCache /\ [][NextCache]_vars

SpecCacheShared == InitCacheShared /\ [][NextCache]_vars

-----------------------------------------------------------------------------
(* Specification of the stencil registry                                   *)

\* the fields registered before the stencils, in registration order
RegisteredLists == {<<"x">>, <<"x", "y">>}

\* the registry after registerField for each name of list
RegistryOf(list) ==
    [n \in SeqRange(list) |->
        LET k == CHOOSE i \in 1..Len(list) : list[i] = n
        IN  [name |-> n, format |-> "eR32Sfloat", elementSize |-> elementSize("eR32Sfloat"),
             descriptorIndex |-> k - 1, deviceAddress |-> k]]

\* the definitions registerStencil is called with
StencilDefinitions ==
    [name : StencilNames \cup {""}, inputs : FieldLists, outputs : {<<>>, <<"y">>},
     code : {"srcA"}, requiresHalos : {FALSE}]

InitStencil ==
    /\ InitGraphVars /\ InitHaloVars /\ InitSplitVars /\ InitRefineVars /\ InitUploadVars
    /\ InitCacheVars /\ InitStepVars /\ InitStencilVars
    /\ \E list \in RegisteredLists :
        /\ m_fields = RegistryOf(list)
        /\ m_nextDescriptorIndex = Len(list)
        /\ m_bdaTableMapped = [i \in 0..MAX_FIELDS - 1 |-> IF i < Len(list) THEN i + 1 ELSE 0]
    /\ registerResult = "none"
    /\ registryAlive = TRUE
    /\ InitDecompVars

RegisterStencilCall ==
    /\ \E definition \in StencilDefinitions, compiles \in BOOLEAN,
          saved \in BOOLEAN, pipelineCreated \in BOOLEAN :
        registerStencil(definition, compiles, saved, pipelineCreated)
    /\ UNCHANGED <<cacheProcs, saving, lastLoad, committed, fileOrigin, storeCalls>>
    /\ UNCHANGED <<graphVars, haloVars, fieldVars, splitVars, refineVars, uploadVars, stepVars, decompVars>>

NextStencil == RegisterStencilCall

SpecStencil == InitStencil /\ [][NextStencil]_vars

-----------------------------------------------------------------------------
(* Specification of the engine: addField, addStencil and step interleaved  *)

\* the stencil names as keys of m_nodes, numbered in their order
NodeOf(name) == CASE name = "advect" -> 1 [] name = "diffuse" -> 2

EngineFormats == {"eR32Sfloat", "eR32G32B32A32Sfloat"}

\* the definitions addStencil is called with: "diffuse" makes "y" from "x",
\* "advect" reads "y"
EngineDefinitions ==
    {[name |-> "diffuse", inputs |-> <<"x">>, outputs |-> <<"y">>, code |-> "srcA",
      requiresHalos |-> h] : h \in BOOLEAN}
    \cup {[name |-> "advect", inputs |-> <<"y">>, outputs |-> <<>>, code |-> "srcC",
           requiresHalos |-> FALSE]}

\* a grid of one leaf, and one of two leaves next to each other along x
EngineGrids == {{0}, {0, 1}}

\* the orders in which getFields() can iterate once e is inserted
Insertions(seq, e) ==
    {SubSeq(seq, 1, i) \o <<e>> \o SubSeq(seq, i + 1, Len(seq)) : i \in 0..Len(seq)}

\* An initialized engine: no field, no stencil, no step yet
InitEngine ==
    /\ InitGraphVars /\ InitHaloVars /\ InitFieldVars /\ InitSplitVars /\ InitRefineVars
    /\ InitUploadVars /\ InitCacheVars /\ InitStepVars /\ InitStencilVars /\ InitDecompVars

\* step() blocks its caller until it returns
BetweenSteps == hostPc \in {"idle", "done", "failed"}

\* addField(name, format): registerField with a zero fill; the buffers are
\* taken to be allocated and filled
AddFieldCall ==
    /\ BetweenSteps
    /\ registryAlive
    /\ \E name \in Fields, format \in EngineFormats :
        /\ registerField(name, format, TRUE, Cardinality(DOMAIN m_fields) + 1, TRUE)
        /\ fieldOrder' \in IF registerResult' = "ok" THEN Insertions(fieldOrder, name)
                           ELSE {fieldOrder}
    /\ UNCHANGED registryAlive
    /\ UNCHANGED <<m_subDomains, hostPc, domainIdx, stepCalls, cmdBuf,
                   m_waitSemaphores, m_waitValues, m_signalSemaphores, m_signalValues,
                   submission, fenceSignaled, m_haloSemaphores, remoteHalos, localHalos,
                   consumed, signalLog, waitLog>>
    /\ UNCHANGED <<graphVars, splitVars, refineVars, uploadVars, cacheVars, stepVars, stencilVars, decompVars>>

\* addStencil(definition): registerStencil, then addNode; an exception of
\* registerStencil leaves addStencil before addNode
AddStencilCall ==
    /\ BetweenSteps
    /\ \E definition \in EngineDefinitions :
        /\ registerStencil(definition, TRUE, TRUE, TRUE)
        /\ IF stencilCall'.outcome = "ok"
           THEN addNode(NodeOf(definition.name), definition.inputs, definition.outputs)
           ELSE UNCHANGED <<m_nodes, m_adjacencyList, schedResult, cycleResult>>
    /\ UNCHANGED <<declared, cacheProcs, saving, lastLoad, committed, fileOrigin, storeCalls>>
    /\ UNCHANGED <<haloVars, fieldVars, splitVars, refineVars, uploadVars, stepVars, decompVars>>

EngineStepBegin == StepBeginOn(EngineGrids)

\* getHaloBufferSet(fieldName, gpuIndex) throws for a field that is not in
\* m_fieldHalos
HalosMissing == \E f \in SeqRange(fieldOrder) : f \notin DOMAIN remoteHalos

EngineRecordSubmit == ~HalosMissing /\ RecordSubmit

\* recordTimestep throws out of the first loop of recordHaloExchange, after
\* the executor's lists are cleared and the first barrier is recorded; step()
\* rethrows
RecordThrows ==
    /\ hostPc = "record"
    /\ HalosMissing
    /\ hostPc' = "failed"
    /\ cmdBuf' = <<packBarrier>>
    /\ m_waitSemaphores' = <<>>
    /\ m_waitValues' = <<>>
    /\ m_signalSemaphores' = <<>>
    /\ m_signalValues' = <<>>
    /\ UNCHANGED <<fieldOrder, m_subDomains, domainIdx, stepCalls, submission, fenceSignaled,
                   m_haloSemaphores, remoteHalos, localHalos, consumed, signalLog, waitLog>>
    /\ UNCHANGED <<graphVars, fieldVars, splitVars, refineVars, uploadVars, cacheVars, stepVars, stencilVars, decompVars>>

NextEngine ==
    \/ AddFieldCall
    \/ AddStencilCall
    \/ EngineStepBegin
    \/ EngineRecordSubmit
    \/ RecordThrows
    \/ GpuExecute
    \/ FenceReturn

SpecEngine == InitEngine /\ [][NextEngine]_vars

-----------------------------------------------------------------------------
(* Specification of the control flow of SimulationEngine::step             *)

\* the places decomposeDomain() can throw from, in program order, and what
\* exists when it does: the grid handle (buildUniformGrid, GridLoader::load),
\* split(), the HaloManager constructor, allocateFieldHalos,
\* createHaloSemaphores, the GraphExecutor constructor
DecomposeFailures == {"grid", "split", "haloManager", "fieldHalos", "semaphores", "executor"}

\* m_subDomains is assigned before the HaloManager is made
DomainsAfter(stage) == IF stage \in {"grid", "split"} THEN 0 ELSE engineGpuCount

HaloManagerAfter(stage) ==
    CASE stage \in {"grid", "split", "haloManager"} -> "null"
      [] stage = "fieldHalos" -> "constructed"
      [] stage = "semaphores" -> "halos"
      [] stage = "executor" -> "semaphores"

\* An initialized engine, no step made yet
InitStep ==
    /\ InitGraphVars /\ InitHaloVars /\ InitFieldVars /\ InitSplitVars /\ InitRefineVars
    /\ InitUploadVars /\ InitCacheVars
    /\ m_initialized \in BOOLEAN
    /\ engineGpuCount \in 1..MaxGpus
    /\ engineDomains = 0
    /\ m_haloManager = "null"
    /\ m_graphExecutor = FALSE
    /\ stepPc = "idle"
    /\ stepDomain = 0
    /\ stepOutcome = "none"
    /\ openPools = 0
    /\ openFences = 0
    /\ fenceFailed = FALSE
    /\ lastSubmit = NoSubmit
    /\ engineSteps = 0
    /\ InitStencilVars
    /\ gridFileGiven \in BOOLEAN
    /\ gridUploads = 0
    /\ haloManagersMade = 0
    /\ haloAllocations = 0
    /\ semaphoreSetsMade = 0

StepFrame ==
    UNCHANGED <<graphVars, haloVars, fieldVars, splitVars, refineVars, uploadVars, cacheVars, stencilVars, decompVars>>

\* step(dt) on an engine that is not initialized
StepNotInitialized ==
    /\ stepPc = "idle"
    /\ engineSteps < MaxSteps
    /\ ~m_initialized
    /\ engineSteps' = engineSteps + 1
    /\ stepOutcome' = "Engine not initialized"
    /\ UNCHANGED <<m_initialized, engineGpuCount, engineDomains, m_haloManager,
                   m_graphExecutor, stepPc, stepDomain, openPools, openFences, fenceFailed,
                   lastSubmit>>
    /\ StepFrame

\* loadGrid() is called for a configured grid file while
\* m_gridResources.activeVoxelCount is 0, that is until an upload has returned
LoadsGrid == gridFileGiven /\ gridUploads = 0

\* what a decomposeDomain() that throws at stage has made ("none": it
\* returns); a throw at "grid" comes from loadGrid, before its upload
\* returns, or from GridLoader::load or buildUniformGrid after it
DecomposeCounts(stage) ==
    /\ gridUploads' \in IF LoadsGrid
                        THEN (IF stage = "grid" THEN {gridUploads, gridUploads + 1}
                              ELSE {gridUploads + 1})
                        ELSE {gridUploads}
    /\ haloManagersMade' = IF stage \in {"grid", "split", "haloManager"}
                            THEN haloManagersMade ELSE haloManagersMade + 1
    /\ haloAllocations' = IF stage \in {"semaphores", "executor", "none"}
                           THEN haloAllocations + 1 ELSE haloAllocations
    /\ semaphoreSetsMade' = IF stage \in {"executor", "none"}
                             THEN semaphoreSetsMade + 1 ELSE semaphoreSetsMade
    /\ UNCHANGED gridFileGiven

OtherFrame ==
    UNCHANGED <<graphVars, haloVars, fieldVars, splitVars, refineVars, uploadVars, cacheVars, stencilVars>>

\* step(dt) up to the loop, when decomposeDomain() is called and throws
StepDecomposeFails ==
    /\ stepPc = "idle"
    /\ engineSteps < MaxSteps
    /\ m_initialized
    /\ engineDomains = 0
    /\ engineSteps' = engineSteps + 1
    /\ \E stage \in DecomposeFailures :
        /\ stage = "split" => engineGpuCount > 1
        /\ engineDomains' = DomainsAfter(stage)
        /\ m_haloManager' = HaloManagerAfter(stage)
        /\ DecomposeCounts(stage)
    /\ stepOutcome' = "decomposeDomain threw"
    /\ UNCHANGED <<m_initialized, engineGpuCount, m_graphExecutor, stepPc, stepDomain,
                   openPools, openFences, fenceFailed, lastSubmit>>
    /\ OtherFrame

\* step(dt) up to the loop: decomposeDomain() if m_subDomains is empty, then
\* buildSchedule(), which may throw
StepBeginLoop ==
    /\ stepPc = "idle"
    /\ engineSteps < MaxSteps
    /\ m_initialized
    /\ engineSteps' = engineSteps + 1
    /\ IF engineDomains = 0
       THEN /\ engineDomains' = engineGpuCount
            /\ m_haloManager' = "semaphores"
            /\ m_graphExecutor' = TRUE
            /\ DecomposeCounts("none")
       ELSE UNCHANGED <<engineDomains, m_haloManager, m_graphExecutor, decompVars>>
    /\ \/ stepPc' = "loop" /\ stepDomain' = 1 /\ stepOutcome' = "none"
       \/ stepPc' = "idle" /\ stepDomain' = stepDomain /\ stepOutcome' = "buildSchedule threw"
    /\ UNCHANGED <<m_initialized, engineGpuCount, openPools, openFences, fenceFailed, lastSubmit>>
    /\ OtherFrame

\* One turn of the loop up to the submit, when a call in it throws: the
\* pool and the fence made so far are not destroyed by the catch block
LoopBodyThrows ==
    /\ stepPc = "loop"
    /\ \E thrower \in {"createCommandPool", "allocateCommandBuffers", "recordTimestep",
                       "createFence", "submit"} :
        /\ thrower = "recordTimestep" => m_graphExecutor
        /\ thrower \in {"createFence", "submit"} => m_graphExecutor
        /\ openPools' = IF thrower = "createCommandPool" THEN openPools ELSE openPools + 1
        /\ openFences' = IF thrower = "submit" THEN openFences + 1 ELSE openFences
        /\ stepOutcome' = "loop body threw"
    /\ stepPc' = "idle"
    /\ UNCHANGED <<m_initialized, engineGpuCount, engineDomains, m_haloManager,
                   m_graphExecutor, stepDomain, fenceFailed, lastSubmit, engineSteps>>
    /\ StepFrame

\* One turn of the loop up to the submit: pool, command buffer,
\* recordTimestep if m_graphExecutor is non-null, the executor's semaphore
\* lists, fence, submit.  With a null m_graphExecutor the calls
\* m_graphExecutor->getWaitSemaphores() are undefined: the process may stop
\* there or go on to the submit with whatever the lists hold.
LoopBodySubmit ==
    /\ stepPc = "loop"
    /\ openPools' = openPools + 1
    /\ \/ /\ stepPc' = "fence"
          /\ openFences' = openFences + 1
          /\ lastSubmit' = [made |-> TRUE, recorded |-> m_graphExecutor,
                            domains |-> engineDomains, haloManager |-> m_haloManager,
                            graphExecutor |-> m_graphExecutor]
       \/ /\ ~m_graphExecutor
          /\ stepPc' = "crashed"
          /\ UNCHANGED <<openFences, lastSubmit>>
    /\ UNCHANGED <<m_initialized, engineGpuCount, engineDomains, m_haloManager,
                   m_graphExecutor, stepDomain, stepOutcome, fenceFailed, engineSteps>>
    /\ StepFrame

\* waitForFences returns eSuccess: fence and pool destroyed, next sub-domain
\* or return from step()
FenceWaitReturns ==
    /\ stepPc = "fence"
    /\ openFences' = openFences - 1
    /\ openPools' = openPools - 1
    /\ IF stepDomain < engineDomains
       THEN stepDomain' = stepDomain + 1 /\ stepPc' = "loop" /\ UNCHANGED stepOutcome
       ELSE stepDomain' = stepDomain /\ stepPc' = "idle" /\ stepOutcome' = "ok"
    /\ UNCHANGED <<m_initialized, engineGpuCount, engineDomains, m_haloManager,
                   m_graphExecutor, fenceFailed, lastSubmit, engineSteps>>
    /\ StepFrame

\* waitForFences does not return eSuccess (or throws for a lost device):
\* std::runtime_error("Wait for fence failed") leaves step() through the
\* catch block, which logs and rethrows
FenceWaitFails ==
    /\ stepPc = "fence"
    /\ stepPc' = "idle"
    /\ stepOutcome' = "Wait for fence failed"
    /\ fenceFailed' = TRUE
    /\ UNCHANGED <<m_initialized, engineGpuCount, engineDomains, m_haloManager,
                   m_graphExecutor, stepDomain, openPools, openFences, lastSubmit,
                   engineSteps>>
    /\ StepFrame

NextStep ==
    \/ StepNotInitialized
    \/ StepDecomposeFails
    \/ StepBeginLoop
    \/ LoopBodyThrows
    \/ LoopBodySubmit
    \/ FenceWaitReturns
    \/ FenceWaitFails

SpecStep == InitStep /\ [][NextStep]_vars

-----------------------------------------------------------------------------
(* Properties of the dependency graph                                      *)

Dependents(u) == IF u \in DOMAIN m_adjacencyList THEN m_adjacencyList[u] ELSE <<>>

Before(s, u, v) ==
    /\ SeqContains(s, u) /\ SeqContains(s, v)
    /\ \A i, j \in 1..Len(s) : s[i] = u /\ s[j] = v => i < j

Shares(a, b) == SeqRange(a) \cap SeqRange(b) # {}

\* read-after-write: v reads a field u writes
RAW(u, v) == Shares(m_nodes[u].writes, m_nodes[v].reads)
WAW(u, v) == Shares(m_nodes[u].writes, m_nodes[v].writes)
WAR(u, v) == Shares(m_nodes[u].reads, m_nodes[v].writes)

RECURSIVE ReachWithin(_, _)
ReachWithin(S, n) ==
    IF n = 0 THEN {}
    ELSE LET succ == {v \in DOMAIN m_nodes : \E u \in S : u # v /\ RAW(u, v)}
         IN  succ \cup ReachWithin(succ, n - 1)

Cyclic == \E u \in DOMAIN m_nodes : u \in ReachWithin({u}, Cardinality(DOMAIN m_nodes))

\* C1: in every schedule buildSchedule returns, each node comes before all
\* its successors (the dependents the adjacency list holds for it).
C1_SuccessorsLater ==
    schedResult.kind = "ok" =>
        \A u \in DOMAIN m_nodes :
            \A v \in SeqRange(Dependents(u)) : Before(schedResult.schedule, u, v)

C1_Witness ==
    /\ schedResult.kind = "ok"
    /\ \E v \in DOMAIN m_nodes : Len(m_nodes[v].dependencies) = 2
    /\ \E u \in DOMAIN m_nodes : Len(Dependents(u)) = 2

\* C2: buildSchedule returns a schedule holding every node exactly once when
\* the graph is acyclic, and only then; for a cyclic graph it throws and
\* returns nothing.
C2_ScheduleIffAcyclic ==
    schedResult.kind # "none" =>
        IF Cyclic
        THEN schedResult.kind = "cycle" /\ schedResult.schedule = <<>>
        ELSE /\ schedResult.kind = "ok"
             /\ Len(schedResult.schedule) = Cardinality(DOMAIN m_nodes)
             /\ SeqRange(schedResult.schedule) = DOMAIN m_nodes

\* a cyclic graph of which Kahn's loop had scheduled a part before the throw
C2_Witness ==
    /\ schedResult.kind = "cycle"
    /\ \E n \in DOMAIN m_nodes : m_nodes[n].dependencies = <<>>
    /\ \E n \in DOMAIN m_nodes : m_nodes[n].dependencies # <<>>

DeclaredBefore(u, v) == Before(declared, u, v)

\* C3: there is an edge u->v exactly when v reads what u writes, or u is
\* declared before v and v writes what u writes or reads; so writers of one
\* field are scheduled in declaration order.
C3_EdgesAreHazards ==
    schedResult.kind # "none" =>
        \A u, v \in DOMAIN m_nodes :
            u # v =>
                (SeqContains(Dependents(u), v) <=>
                    \/ RAW(u, v)
                    \/ WAW(u, v) /\ DeclaredBefore(u, v)
                    \/ WAR(u, v) /\ DeclaredBefore(u, v))

\* C4: hasCycle() is true exactly when buildSchedule() on the same graph
\* throws, and false otherwise, whether or not buildSchedule ran before.
C4_HasCycleAgrees ==
    cycleResult # "none" =>
        LET k == Kahn(computeDependencies(m_nodes))
            r == ScheduleOrThrow(k.schedule, Cardinality(DOMAIN m_nodes))
        IN  cycleResult = (IF r.kind = "cycle" THEN "true" ELSE "false")

-----------------------------------------------------------------------------
(* Properties of the halo exchange and the timestep                        *)

\* the neighbour links of all sub-domains: gpu, face, neighbour gpu
Links ==
    UNION {{[gpu |-> m_subDomains[i].gpuIndex,
             face |-> m_subDomains[i].neighbors[k].face,
             neighbor |-> m_subDomains[i].neighbors[k].gpuIndex] :
                k \in 1..Len(m_subDomains[i].neighbors)} : i \in 1..Len(m_subDomains)}

InStep == hostPc \in {"record", "fence"}

\* every unpack of this step read what the neighbour packed in this step
ConsumedFromNeighbour ==
    \A l \in Links : \A f \in SeqRange(fieldOrder) :
        consumed[f][l.gpu][l.face] =
            [gpu |-> l.neighbor, face |-> oppositeFace(l.face), step |-> stepCalls]

\* C5: a halo exchange between neighbouring sub-domains runs to its end, and
\* then what each sub-domain's unpack read from its local halo of face f is
\* what the neighbour on that face packed for its face f xor 1 in this step.
C5_UnpackReadsNeighbourPack ==
    (InStep /\ Links # {}) ~> (hostPc = "done" /\ ConsumedFromNeighbour)

\* C6: with sub-domains that are face neighbours, every step() that has
\* started its loop returns: the semaphore waits of its submissions are
\* satisfied in the end.
C6_StepCompletes ==
    (InStep /\ Links # {}) ~> (hostPc = "done")

\* C7: the value signalled on a timeline semaphore goes up by one with every
\* halo transfer recorded for it, starting from the initial 0, and the value
\* the receiver waits for is the value the sender signals for that transfer.
C7_TimelineValuesIncrease ==
    \A h \in DOMAIN signalLog :
        /\ \A k \in 1..Len(signalLog[h]) : signalLog[h][k] = k
        /\ \A k \in 1..Len(waitLog[h]) :
              k <= Len(signalLog[h]) => waitLog[h][k] = signalLog[h][k]

IsBarrier(c, srcStage, dstStage, srcAccess, dstAccess) ==
    /\ c.op = "barrier"
    /\ c.srcStage = srcStage /\ c.dstStage = dstStage
    /\ srcAccess \in c.srcAccess /\ dstAccess \in c.dstAccess

Positions(op) == {i \in 1..Len(cmdBuf) : cmdBuf[i].op = op}

\* C8: in a recorded command buffer all packs come before a barrier compute
\* write -> transfer read, that barrier before all copies, all copies before
\* a barrier transfer write -> compute read, and that barrier before all
\* unpacks.
C8_HaloPhasesOrdered ==
    cmdBuf # <<>> =>
        \E b1, b2 \in 1..Len(cmdBuf) :
            /\ IsBarrier(cmdBuf[b1], "ComputeShader", "Transfer", "ShaderWrite", "TransferRead")
            /\ IsBarrier(cmdBuf[b2], "Transfer", "ComputeShader", "TransferWrite", "ShaderRead")
            /\ b1 < b2
            /\ \A i \in Positions("pack") : i < b1
            /\ \A i \in Positions("copy") : b1 < i /\ i < b2
            /\ \A i \in Positions("unpack") : b2 < i

\* a command buffer with two fields exchanged with two neighbours
C8_Witness ==
    /\ Cardinality(Positions("pack")) >= 4
    /\ Cardinality(Positions("copy")) >= 4
    /\ Cardinality(Positions("unpack")) >= 4

\* C9: between two consecutive stencil dispatches of a recorded timestep
\* there is a barrier compute shader write -> compute shader read.
C9_BarrierBetweenStencils ==
    \A i, j \in Positions("dispatch") :
        (i < j /\ ~\E m \in Positions("dispatch") : i < m /\ m < j) =>
            \E b \in (i + 1)..(j - 1) :
                IsBarrier(cmdBuf[b], "ComputeShader", "ComputeShader",
                          "ShaderWrite", "ShaderRead")

C9_Witness == Cardinality(Positions("dispatch")) >= 3

-----------------------------------------------------------------------------
(* Properties of the field registry                                        *)

TableHoldsAddresses ==
    \A n \in DOMAIN m_fields :
        m_bdaTableMapped[m_fields[n].descriptorIndex] = m_fields[n].deviceAddress

\* while the registry lives, a registered field stays registered with the
\* same descriptor and its table entry is not written again
EntriesKept ==
    registryAlive' =>
        \A n \in DOMAIN m_fields :
            /\ n \in DOMAIN m_fields'
            /\ m_fields'[n] = m_fields[n]
            /\ m_bdaTableMapped'[m_fields[n].descriptorIndex] =
                   m_bdaTableMapped[m_fields[n].descriptorIndex]

\* C10: after any sequence of registerField calls the table entry at the
\* descriptor index of every registered field is the device address of the
\* field's buffer, and the entry stays so until the registry is destroyed.
C10_TableMatchesFields ==
    [](registryAlive => TableHoldsAddresses) /\ [][EntriesKept]_vars

\* two fields registered, with a failed allocation and a failed fill among
\* the calls
C10_Witness ==
    /\ Cardinality(DOMAIN m_fields) >= 2
    /\ m_nextDescriptorIndex > Cardinality(DOMAIN m_fields)
    /\ registerResult = "throw"
    /\ \E n \in DOMAIN m_fields : m_fields[n].descriptorIndex = m_nextDescriptorIndex - 1

\* the descriptor indices of the registered fields
IndicesInUse == {m_fields[n].descriptorIndex : n \in DOMAIN m_fields}

\* a call that registers a field gives it the counter's value, which is
\* above the index of every field registered before
IndexIsNextFree ==
    \A n \in DOMAIN m_fields' \ DOMAIN m_fields :
        /\ m_fields'[n].descriptorIndex = m_nextDescriptorIndex
        /\ \A o \in DOMAIN m_fields :
              m_fields[o].descriptorIndex < m_fields'[n].descriptorIndex
              /\ m_fields'[o].descriptorIndex = m_fields[o].descriptorIndex

\* C11: descriptor indices are handed out in registration order at the next
\* free index and never reused: after successful and failed registerField
\* calls no two fields share an index, and a field registered later has a
\* larger index than every field registered before it.
C11_IndicesInOrderNeverReused ==
    /\ [](\A a, b \in DOMAIN m_fields :
            a # b => m_fields[a].descriptorIndex # m_fields[b].descriptorIndex)
    /\ [](\A i \in IndicesInUse : i < m_nextDescriptorIndex)
    /\ [][IndexIsNextFree]_vars

\* three fields registered with two failed allocations in between
C11_Witness ==
    /\ Cardinality(DOMAIN m_fields) = 3
    /\ m_nextDescriptorIndex = 5
    /\ 0 \notin IndicesInUse
    /\ 4 \in IndicesInUse

-----------------------------------------------------------------------------
(* Properties of the domain splitter                                       *)

\* the active voxels of sub-domain i, as the leaves that hold them: the
\* voxels inside its bounds, which activeVoxelCount counts and extract() takes
ActiveSet(i) == LeavesInside(hostGrid, splitDomains[i].bounds)

RECURSIVE SumActive(_)
SumActive(i) == IF i = 0 THEN 0 ELSE splitDomains[i].activeVoxelCount + SumActive(i - 1)

\* C12: for every split of a non-empty grid the active-voxel sets of the
\* returned sub-domains are pairwise disjoint, their union is the full active
\* set, and so their active voxel counts sum to the grid's count.
C12_SubDomainsPartition ==
    splitDomains # <<>> =>
        /\ \A i, j \in 1..Len(splitDomains) : i # j => ActiveSet(i) \cap ActiveSet(j) = {}
        /\ UNION {ActiveSet(i) : i \in 1..Len(splitDomains)} = hostGrid
        /\ SumActive(Len(splitDomains)) = activeVoxelCount(hostGrid)

\* sub-domain i (1-based position) has a link to gpu b at face f
HasLink(i, b, f) ==
    \E k \in 1..Len(splitDomains[i].neighbors) :
        splitDomains[i].neighbors[k] = [gpuIndex |-> b, face |-> f]

SplitLinks ==
    {l \in (1..Len(splitDomains)) \X (0..MaxGpus) \X Faces : HasLink(l[1], l[2], l[3])}

\* C13: for every neighbour link A -> B at face f that the splitter records,
\* the link B -> A at face f xor 1 is recorded too.
C13_LinksReciprocal ==
    \A l \in SplitLinks :
        /\ l[2] + 1 \in 1..Len(splitDomains)
        /\ HasLink(l[2] + 1, splitDomains[l[1]].gpuIndex, oppositeFace(l[3]))

\* a split into three sub-domains, the middle one linked to both others
C13_Witness ==
    /\ Len(splitDomains) = 3
    /\ Len(splitDomains[2].neighbors) = 2
    /\ \E i \in 1..3 : Len(splitDomains[i].assignedLeaves) > 1

\* the axis (1-based) of a face, and whether the face looks up the axis
FaceAxis(f) == (f \div 2) + 1
FaceUp(f) == f % 2 = 1

\* boxA touches boxB across face f of boxA
Touches(boxA, boxB, f) ==
    IF FaceUp(f) THEN boxA.max[FaceAxis(f)] + 1 = boxB.min[FaceAxis(f)]
    ELSE boxB.max[FaceAxis(f)] + 1 = boxA.min[FaceAxis(f)]

OverlapOn(boxA, boxB, axis) ==
    boxA.min[axis] <= boxB.max[axis] /\ boxB.min[axis] <= boxA.max[axis]

\* C14: the splitter records a link between sub-domains A and B on face f of
\* A exactly when A.max + 1 = B.min on the axis of f (B.max + 1 = A.min for a
\* face that looks down the axis) and the bounding boxes overlap on the
\* other two axes.
C14_LinkIffFaceAdjacent ==
    \A i, j \in 1..Len(splitDomains) : \A f \in Faces :
        i # j =>
            (HasLink(i, splitDomains[j].gpuIndex, f) <=>
                /\ Touches(splitDomains[i].bounds, splitDomains[j].bounds, f)
                /\ \A axis \in (1..3) \ {FaceAxis(f)} :
                      OverlapOn(splitDomains[i].bounds, splitDomains[j].bounds, axis))

-----------------------------------------------------------------------------
(* Properties of the topology rebuild                                      *)

Rebuilt == cycles > 0 /\ oldLUT # <<>>

NewCoords == SeqRange(gridLUT)

\* C16: a voxel whose mask byte is 0 is in the new LUT with its coordinate
C16_UnmarkedRetained ==
    Rebuilt => \A i \in 1..Len(oldLUT) : oldMask[i] = KEEP => oldLUT[i] \in NewCoords

\* the parents all of whose eight children 2p + {0,1}^3 are in the old LUT
\* and marked coarsen
FullGroups ==
    {p \in {ParentOf(oldLUT[i]) : i \in 1..Len(oldLUT)} :
        \A c \in ChildrenOf(p) :
            \E i \in 1..Len(oldLUT) : oldLUT[i] = c /\ oldMask[i] = COARSEN}

RefineCount == Cardinality({i \in 1..Len(oldLUT) : oldMask[i] = REFINE})

\* C15: the new LUT has 7 entries more per refined voxel and 7 fewer per
\* fully coarsened sibling group than the old one
C15_SizeLaw ==
    Rebuilt => Len(gridLUT) = Len(oldLUT) + 7 * RefineCount - 7 * Cardinality(FullGroups)

\* a coordinate the rebuild emits for another voxel: as a child of a
\* refined voxel or as the parent of a full group
EmittedOtherwise(c) ==
    \/ \E i \in 1..Len(oldLUT) : oldMask[i] = REFINE /\ c \in ChildrenOf(oldLUT[i])
    \/ c \in FullGroups

\* C17: a voxel marked coarsen gives way to its parent coord/2 exactly when
\* the parent's eight children are all in the old LUT and all marked
\* coarsen; otherwise it stays
C17_CoarsenIffFullGroup ==
    Rebuilt =>
        \A i \in 1..Len(oldLUT) : oldMask[i] = COARSEN =>
            IF ParentOf(oldLUT[i]) \in FullGroups /\ oldLUT[i] \in ChildrenOf(ParentOf(oldLUT[i]))
            THEN /\ ParentOf(oldLUT[i]) \in NewCoords
                 /\ EmittedOtherwise(oldLUT[i]) \/ oldLUT[i] \notin NewCoords
            ELSE oldLUT[i] \in NewCoords

-----------------------------------------------------------------------------
(* Properties of the refinement levels                                     *)

LevelOf(coord) == m_hostLevels[IndexIn(gridLUT, coord)]

\* C18: the eight children of a voxel refined at level L are in the new
\* LUT with level L + 1
C18_ChildrenOneLevelUp ==
    (Rebuilt /\ Len(oldLevels) = Len(oldLUT)) =>
        \A i \in 1..Len(oldLUT) : oldMask[i] = REFINE =>
            \A c \in ChildrenOf(oldLUT[i]) :
                c \in NewCoords /\ LevelOf(c) = oldLevels[i] + 1

LevelsInRange ==
    \A i \in 1..Len(m_hostLevels) :
        /\ m_hostLevels[i] >= m_criteria.minRefinementLevel
        /\ m_hostLevels[i] <= m_criteria.maxRefinementLevel

\* the mask as the mark left it for the rebuild
RequestsInRange ==
    refinePhase \in {"rebuild", "regrid"} =>
        \A i \in 1..Len(maskBuffer) :
            /\ maskBuffer[i] = REFINE => m_hostLevels[i] < m_criteria.maxRefinementLevel
            /\ maskBuffer[i] = COARSEN => m_hostLevels[i] > m_criteria.minRefinementLevel

\* C19: through any cycles every level stays within the criteria's limits,
\* refine is requested only below the maximum and coarsen only above the
\* minimum
C19_LevelsWithinLimits == LevelsInRange /\ RequestsInRange

-----------------------------------------------------------------------------
(* Properties of the grid upload                                           *)

\* the Z-order key of the contract: bit k of x, y, z at positions 3k, 3k + 1,
\* 3k + 2 for the 21 low bits of each component
Morton21(c) ==
    UNION {{3 * k + (a - 1) : k \in BitsOf(c[a]) \cap (0..20)} : a \in 1..3}

\* C21: after an upload the LUT is strictly increasing in the 21-bit Z-order
\* key and values[i] is the value of the voxel at LUT[i]
C21_LutInMortonOrder ==
    uploadResult = "ok" =>
        /\ Len(linearValues) = Len(lutCoords)
        /\ \A i \in 1..Len(lutCoords) :
              lutCoords[i] \in DOMAIN uploadGrid /\ linearValues[i] = uploadGrid[lutCoords[i]]
        /\ \A i, j \in 1..Len(lutCoords) :
              i < j => KeyLess(Morton21(lutCoords[i]), Morton21(lutCoords[j]))

-----------------------------------------------------------------------------
(* Properties of the pipeline cache                                        *)

\* C22: a load of a name and source whose save completed, with no clear and
\* no new save of that name and source since, returns the words saved
C22_LoadReturnsStored ==
    lastLoad.expected # <<>> => lastLoad.result = lastLoad.expected

\* C23: a load never returns words that were saved for another source
C23_NoForeignBody ==
    lastLoad.result # <<>> => lastLoad.origin = lastLoad.source

\* C24: a load of a file that was left cut short or damaged is a miss
C24_TruncatedIsMiss ==
    (~lastLoad.intact /\ ~lastLoad.writerActive) => lastLoad.result = <<>>

\* C25: a load that runs while another process saves the same file never
\* returns a partly written file as a hit
C25_NoPartialHit ==
    (lastLoad.writerActive /\ lastLoad.result # <<>>) => lastLoad.intact

-----------------------------------------------------------------------------
(* Properties of the control flow of step                                  *)

\* C26: once a fence wait has failed the engine is poisoned: the failed
\* step has ended with an error and no later call gets past the entry of
\* step()
C26_PoisonedAfterFenceFailure ==
    fenceFailed => (stepPc = "idle" /\ stepOutcome \notin {"none", "ok"})

FullyInitialised ==
    engineDomains > 0 /\ m_haloManager = "semaphores" /\ m_graphExecutor

\* C27: a failing decomposeDomain() ends the step with its error, and the
\* loop of a later step() records and submits only when sub-domains, halo
\* buffers, halo semaphores and graph executor all exist
C27_NoWorkOnPartialState ==
    /\ (stepOutcome = "decomposeDomain threw") => stepPc = "idle"
    /\ stepPc = "fence" => FullyInitialised
    /\ lastSubmit.made =>
          /\ lastSubmit.domains > 0
          /\ lastSubmit.haloManager = "semaphores"
          /\ lastSubmit.graphExecutor

\* C28: whenever step() is not running, every command pool and fence it
\* created has been destroyed
C28_ResourcesReleased ==
    stepPc = "idle" => (openPools = 0 /\ openFences = 0)

-----------------------------------------------------------------------------
(* Properties of the schedule order                                        *)

\* ready from the start: no dependencies, so in the queue before the loop
ReadyAtStart(u) == u \in DOMAIN m_nodes /\ m_nodes[u].dependencies = <<>>

\* C29: of two nodes that are ready at the same time, the one added earlier
\* is scheduled earlier
C29_InsertionOrderTieBreak ==
    schedResult.kind = "ok" =>
        \A u, v \in DOMAIN m_nodes :
            (ReadyAtStart(u) /\ ReadyAtStart(v) /\ DeclaredBefore(u, v))
                => Before(schedResult.schedule, u, v)

-----------------------------------------------------------------------------
(* Properties of the registry's limits                                     *)

\* a step that changes the registry adds one field under a name that was not
\* registered, below the limit, and leaves every registered field as it was
AddsOneNewName ==
    m_fields' # m_fields =>
        /\ Cardinality(DOMAIN m_fields) < MAX_FIELDS
        /\ \E n \in DOMAIN m_fields' \ DOMAIN m_fields :
              /\ DOMAIN m_fields' = DOMAIN m_fields \cup {n}
              /\ m_fields'[n].name = n
        /\ \A o \in DOMAIN m_fields : m_fields'[o] = m_fields[o]

\* C30: a call naming a registered field and a call at 256 registered
\* fields fail and change nothing, so the registry never holds more than
\* 256 fields and never a second field under a registered name
C30_DuplicateAndCapacityRejected ==
    /\ [](Cardinality(DOMAIN m_fields) <= MAX_FIELDS)
    /\ [](\A n \in DOMAIN m_fields : m_fields[n].name = n)
    /\ [][AddsOneNewName]_vars
    /\ [][(Cardinality(DOMAIN m_fields) = MAX_FIELDS /\ registerResult' # registerResult)
            => registerResult' \in {"Field already exists",
                                    "Maximum number of fields exceeded"}]_vars

\* the registry is full and the last call was turned away for that
C30_Witness ==
    /\ Cardinality(DOMAIN m_fields) = MAX_FIELDS
    /\ m_nextDescriptorIndex = MAX_FIELDS
    /\ registerResult = "Maximum number of fields exceeded"

-----------------------------------------------------------------------------
(* Properties of failed registrations                                      *)

\* C38: a registerField call that fails leaves the set of fields, the
\* address table and the next descriptor index as they were before the call
C38_FailedCallChangesNothing ==
    [][(registryAlive' /\ registerResult' # "ok")
          => UNCHANGED <<m_fields, m_bdaTableMapped, m_nextDescriptorIndex>>]_vars

-----------------------------------------------------------------------------
(* Properties of nodes that read what they write                           *)

\* no node reads a field that another node writes
NoCrossOverlap ==
    \A u, v \in DOMAIN m_nodes :
        u # v => SeqRange(m_nodes[u].reads) \cap SeqRange(m_nodes[v].writes) = {}

ReadsOwnOutput(n) == SeqRange(m_nodes[n].reads) \cap SeqRange(m_nodes[n].writes) # {}

\* C36: a node that reads and writes the same field does not depend on
\* itself; when the only overlaps of reads and writes are within single
\* nodes, no cycle is reported and the schedule holds every node once
C36_NoSelfDependency ==
    /\ \A n \in DOMAIN m_nodes : ~SeqContains(m_nodes[n].dependencies, n)
    /\ \A n \in DOMAIN m_adjacencyList : ~SeqContains(m_adjacencyList[n], n)
    /\ (NoCrossOverlap /\ schedResult.kind # "none") =>
          /\ schedResult.kind = "ok"
          /\ Len(schedResult.schedule) = Cardinality(DOMAIN m_nodes)
          /\ SeqRange(schedResult.schedule) = DOMAIN m_nodes
    /\ NoCrossOverlap => cycleResult # "true"

\* two nodes, each working in place on its own field, have been scheduled
C36_Witness ==
    /\ schedResult.kind = "ok"
    /\ NoCrossOverlap
    /\ Cardinality({n \in DOMAIN m_nodes : ReadsOwnOutput(n)}) >= 2
    /\ Len(schedResult.schedule) >= 2

-----------------------------------------------------------------------------
(* Properties of the sub-domain list                                       *)

\* C35: the list split() returns has at most gpuCount sub-domains, none of
\* them without leaves, and the sub-domain at position i (0-based) has
\* gpuIndex i
C35_ContiguousNonEmpty ==
    /\ Len(splitDomains) <= configGpuCount
    /\ \A i \in 1..Len(splitDomains) :
          /\ splitDomains[i].assignedLeaves # <<>>
          /\ splitDomains[i].gpuIndex = i - 1

-----------------------------------------------------------------------------
(* Properties of the stencil registry                                      *)

FieldsOf(definition) == SeqRange(definition.inputs) \cup SeqRange(definition.outputs)

\* a stored stencil stays stored as it is
StencilsKept ==
    \A n \in DOMAIN m_stencils : n \in DOMAIN m_stencils' /\ m_stencils'[n] = m_stencils[n]

-----------------------------------------------------------------------------
(* Properties of the set-up done by the first step                         *)

SetUpCounts == <<gridUploads, haloManagersMade, haloAllocations, semaphoreSetsMade>>

\* C33: a step() that has returned has behind it one grid upload, one
\* decomposition, one halo allocation and one creation of the halo
\* semaphores, made by the first call; later calls make none of them again
\* and keep the sub-domains
C33_SetUpOnceAtFirstStep ==
    /\ [](stepOutcome = "ok" => (engineDomains > 0 /\ SetUpCounts = <<1, 1, 1, 1>>))
    /\ [](\A i \in 1..4 : SetUpCounts[i] <= 1)
    /\ [][engineDomains > 0 => UNCHANGED <<engineDomains, decompVars>>]_vars

-----------------------------------------------------------------------------
(* Properties of the engine's timestep                                     *)

\* the command buffer of the sub-domain at hand has been recorded and
\* submitted, with the fields and stencils registered now
JustRecorded == hostPc = "fence"

HaloOps == Positions("pack") \cup Positions("copy") \cup Positions("unpack")

NoStencilRequiresHalos ==
    \A n \in DOMAIN m_stencils : ~m_stencils[n].definition.requiresHalos

\* C32: when no registered stencil requires halos, step records no pack, no
\* transfer and no unpack, and the submit waits on and signals no halo
\* semaphore
C32_ExchangeSkippedWhenNotRequired ==
    (JustRecorded /\ NoStencilRequiresHalos) =>
        /\ HaloOps = {}
        /\ m_waitSemaphores = <<>>
        /\ m_signalSemaphores = <<>>

\* the stencils dispatched by the command buffer, in order
Dispatched ==
    LET d == SelectSeq(cmdBuf, LAMBDA c : c.op = "dispatch")
    IN  [k \in 1..Len(d) |-> d[k].stencil]

C37_FieldsAddedLaterHaveHalos ==
    /\ hostPc = "record" =>
          \A f \in SeqRange(fieldOrder) :
              f \in DOMAIN remoteHalos /\ DOMAIN remoteHalos[f] = 0..(gpuCount - 1)
    /\ hostPc = "failed" => schedResult.kind # "ok"

\* the size of the halo buffers of a field at a face of a sub-domain
HaloBufferBytes(field, gpu, face) ==
    haloVoxelCount(m_subDomains[gpu + 1].bounds, face) * m_fields[field].elementSize

\* C39: every recorded halo transfer copies count * elementSize bytes, the
\* size of the buffer it reads and of the buffer it writes
C39_TransferCopiesWholeBuffer ==
    JustRecorded =>
        \A i \in Positions("copy") :
            /\ cmdBuf[i].size = HaloBufferBytes(cmdBuf[i].field, cmdBuf[i].srcGpu, cmdBuf[i].srcFace)
            /\ cmdBuf[i].size = HaloBufferBytes(cmdBuf[i].field, cmdBuf[i].dstGpu, cmdBuf[i].dstFace)

\* C40: between an unpack dispatch into a field and a later stencil dispatch
\* that reads the field there is a barrier compute shader write -> compute
\* shader read
C40_BarrierBetweenUnpackAndStencil ==
    JustRecorded =>
        \A u \in Positions("unpack") : \A d \in Positions("dispatch") :
            (u < d /\ SeqContains(m_nodes[cmdBuf[d].stencil].reads, cmdBuf[u].field)) =>
                \E b \in (u + 1)..(d - 1) :
                    IsBarrier(cmdBuf[b], "ComputeShader", "ComputeShader",
                              "ShaderWrite", "ShaderRead")

====
